---------------------------- MODULE Spec2Model ----------------------------
(***************************************************************************)
(* Real-time session orchestration of ops-api: the media router's rooms    *)
(* and participants, the LiveKit webhook controller, the room reaper       *)
(* (LiveKitService.closeAdminOnlyRooms) and the room_finished analysis     *)
(* task.  Every await of the TypeScript source is one step of a pass or a  *)
(* task, so that joins, leaves and other passes interleave between them.   *)
(***************************************************************************)
EXTENDS Integers, Sequences, FiniteSets, TLC

(***************************************************************************)
(* Bounds of the model.                                                    *)
(***************************************************************************)
\* joins and voluntary leaves the environment performs in one behaviour
MaxEnv == 4
\* transient failures the media router, the database and the AI provider
\* may answer with in one behaviour
MaxFail == 1
\* webhooks and token requests the process receives in one behaviour of the
\* specifications of the webhook controller
MaxReq == 2

Rooms == {"room-a", "room-b"}

\* the deferred reap passes that may be under way at the same time; a pass
\* that has returned frees its place, so a behaviour may hold any number
Passes == {1, 2}

(***************************************************************************)
(* Identities are strings; the role is read off the prefix.                *)
(***************************************************************************)
admin_1 == <<"a", "d", "m", "i", "n", "_", "1">>
agent_1 == <<"a", "g", "e", "n", "t", "-", "1">>
kakao_1 == <<"k", "a", "k", "a", "o", "_", "1">>
Idents == {admin_1, agent_1, kakao_1}

AdminPrefix == <<"a", "d", "m", "i", "n", "_">>
AgentPrefix == <<"a", "g", "e", "n", "t", "-">>

\* String.prototype.startsWith
startsWith(s, prefix) ==
    /\ Len(s) >= Len(prefix)
    /\ SubSeq(s, 1, Len(prefix)) = prefix

VARIABLES
    live,        \* router: the rooms that exist
    members,     \* router: room -> identities connected to it
    hooks,       \* webhooks the router has sent and the controller not yet handled
    tracked,     \* the webhook events whose deliveries this specification follows
    ctl,         \* which LiveKitWebhookController the process runs: "v1" | "v2"
    emitted,     \* the lifecycle event EventsService emitted last
    pass,        \* the reap passes (deferred tasks of participant_left)
    failBudget,  \* transient failures still allowed
    envBudget,   \* joins / leaves still allowed
    stable,      \* history: the router state is as a failure-free pass that
                 \* ran alone left it
    soloDone,    \* history: the router state is as a pass that ran alone
                 \* left it, whatever failed in it
    db,          \* the database: users, devices, room members, calls, summaries
    task,        \* the analysis tasks (deferred tasks of room_finished)
    invoked,     \* call -> how often AiService.analyzeCall was invoked for it
    hist,        \* history of the analysis tasks, per call
    issued,      \* what the last token request was answered with
    response,    \* what POST /webhook/livekit answered last
    tracks,      \* router: the tracks the participants publish
    unsub,       \* router: <<identity, track>>, subscriptions switched off
    metadata,    \* router: room -> the room's metadata string
    sent,        \* router: the data message delivered last
    toggle,      \* the muteAgentInRoom calls under way
    rtc,         \* the POST /v1/rtc/token requests under way
    auth         \* the users, wards and refresh tokens of one Kakao account,
                 \* and the kakaoLogin and refreshTokens calls under way

vars == <<live, members, hooks, tracked, ctl, emitted, pass, failBudget,
          envBudget, stable, soloDone, db, task, invoked, hist, issued, rtc,
          auth, response, tracks, unsub, metadata, sent, toggle>>

\* the router's media state
mediaVars == <<tracks, unsub, metadata>>

\* the takeover toggles and what they sent
takeVars == <<sent, toggle>>

\* the state of the process that no change in the router touches
procVars == <<db, task, invoked, hist, issued, rtc, auth, response,
              sent>>

callVars == <<procVars, toggle, mediaVars>>

NoIdent == <<>>

IdlePass ==
    [pc |-> "idle", scope |-> "", rooms |-> <<>>, i |-> 0,
     participants |-> {}, todo |-> {}, called |-> {}, removedCount |-> 0,
     updatedParticipants |-> {}, aborted |-> FALSE,
     unexamined |-> 0, acted |-> FALSE, clean |-> FALSE,
     onStable |-> FALSE, afterSolo |-> FALSE, failed |-> {}]

Running(p) == pass[p].pc \notin {"idle", "scheduled", "done"}

(***************************************************************************)
(* The media router (external): what a call answers and what it does.      *)
(***************************************************************************)
\* a call may fail transiently while the budget lasts
Outcomes == IF failBudget > 0 THEN {TRUE, FALSE} ELSE {TRUE}

Spend(ok) == failBudget' = IF ok THEN failBudget ELSE failBudget - 1

Hook(ev, r, id) == [event |-> ev, room |-> r, identity |-> id]

Notify(hs) == {h \in hs : h.event \in tracked}

\* listParticipants answers the empty list for a room that does not exist
RouterParticipants(r) == IF r \in live THEN members[r] ELSE {}

\* a published track: TrackInfo.type is a number
Track(r, id, type) == [room |-> r, owner |-> id, type |-> type]

NoMetadata == ""

\* a muteAgentInRoom call that has started and not ended
InToggle(k) == toggle[k].pc \notin {"idle", "returned", "threw"}

\* history: the toggles under way on room r, other than toggle k, have
\* seen the room change under them
Disturb(r, k) ==
    [j \in DOMAIN toggle |->
       IF j # k /\ InToggle(j) /\ toggle[j].room = r
       THEN [toggle[j] EXCEPT !.disturbed = TRUE]
       ELSE toggle[j]]

\* the participants ids of room r are disconnected: their tracks end and
\* the subscriptions of and to them are forgotten
Forget(r, ids) ==
    /\ toggle' = Disturb(r, 0)
    /\ tracks' = {t \in tracks : ~(t.room = r /\ t.owner \in ids)}
    /\ unsub' = {u \in unsub :
                   ~(u[2].room = r /\ (u[1] \in ids \/ u[2].owner \in ids))}

\* listRooms answers the live rooms in an order of the router's choosing;
\* the rooms of this model are interchangeable, so one order stands for all
RoomOrder == <<"room-a", "room-b">>

RouterRooms == SelectSeq(RoomOrder, LAMBDA r : r \in live)

\* any change of the router state that no pass asked for
EnvChange ==
    /\ stable' = FALSE
    /\ soloDone' = FALSE
    /\ pass' = [p \in Passes |->
                  [pass[p] EXCEPT !.clean = FALSE, !.onStable = FALSE,
                                  !.afterSolo = FALSE]]

\* a participant connects; the router creates the room on the first join
Join(r, id) ==
    /\ envBudget > 0
    /\ id \notin members[r]
    /\ envBudget' = envBudget - 1
    /\ live' = live \cup {r}
    /\ members' = [members EXCEPT ![r] = @ \cup {id}]
    /\ hooks' = hooks \cup Notify({Hook("participant_joined", r, id)})
    /\ toggle' = Disturb(r, 0)
    /\ EnvChange
    /\ UNCHANGED <<tracked, ctl, emitted, failBudget>>
    /\ UNCHANGED <<procVars, mediaVars>>

\* a participant disconnects by itself
Leave(r, id) ==
    /\ envBudget > 0
    /\ r \in live
    /\ id \in members[r]
    /\ envBudget' = envBudget - 1
    /\ members' = [members EXCEPT ![r] = @ \ {id}]
    /\ hooks' = hooks \cup Notify({Hook("participant_left", r, id)})
    /\ Forget(r, {id})
    /\ EnvChange
    /\ UNCHANGED <<live, tracked, ctl, emitted, failBudget, metadata>>
    /\ UNCHANGED procVars

\* the router closes a room that stayed empty
RoomTimeout(r) ==
    /\ r \in live
    /\ members[r] = {}
    /\ live' = live \ {r}
    /\ hooks' = hooks \cup Notify({Hook("room_finished", r, NoIdent)})
    /\ metadata' = [metadata EXCEPT ![r] = NoMetadata]
    /\ EnvChange
    /\ UNCHANGED <<members, tracked, ctl, emitted, failBudget, envBudget,
                   tracks, unsub, toggle>>
    /\ UNCHANGED procVars


(***************************************************************************)
(* LiveKitWebhookController.handleWebhook, participant_left.               *)
(***************************************************************************)
NoEvent == [type |-> "none", roomName |-> "", identity |-> NoIdent]

RoomEvent(type, r, id) == [type |-> type, roomName |-> r, identity |-> id]

\* what the endpoint answers: nothing yet, { success: true }, or the
\* HttpException('Invalid webhook', HttpStatus.BAD_REQUEST) of the catch
NoResponse == "none"
Success == "{success:true}"
BadRequest == "400 Invalid webhook"

\* the request had no body: event is undefined or null; a body without
\* an event field has the event ""
NoBody == Hook("<no body>", "", NoIdent)

\* if (participant && room)
hasParticipantAndRoom(h) == h.identity # NoIdent /\ h.room # ""

Scheduled_Started(scope) ==
    [IdlePass EXCEPT !.pc = "listParticipants", !.scope = scope,
                     !.rooms = <<"room-a">>, !.i = 1, !.acted = TRUE]

\* setImmediate(() => { ... }): the handler leaves the pass as a callback
\* that has not started
Scheduled(scope) == [IdlePass EXCEPT !.pc = "scheduled", !.scope = scope]

\* setImmediate: the callback runs in a later turn of the event loop
FreeSlot(p) ==
    /\ pass[p].pc = "idle"
    /\ \A q \in Passes : q < p => pass[q].pc # "idle"

\* the first controller of part_014: the deferred task is closeAdminOnlyRooms()
ParticipantLeftV1(h, p) ==
    /\ ctl = "v1"
    /\ h \in hooks
    /\ h.event = "participant_left"
    /\ hasParticipantAndRoom(h)
    /\ FreeSlot(p)
    /\ hooks' = hooks \ {h}
    /\ emitted' = RoomEvent("participant-left", h.room, h.identity)
    /\ pass' = [pass EXCEPT ![p] = Scheduled("all")]
    /\ UNCHANGED <<live, members, tracked, ctl, failBudget, envBudget, stable,
                   soloDone>>
    /\ response' = Success
    /\ UNCHANGED <<db, task, invoked, hist, issued, rtc, auth, takeVars,
                   mediaVars>>

(***************************************************************************)
(* LiveKitService.closeAdminOnlyRooms, one step per awaited router call.   *)
(***************************************************************************)
isRealUser_NotAgent(identity) == ~startsWith(identity, AgentPrefix)

isRealUser(identity) ==
    /\ ~startsWith(identity, AdminPrefix)
    /\ ~startsWith(identity, AgentPrefix)

hasRealUsers_Never(participants) == FALSE

hasRealUsers(participants) == \E q \in participants : isRealUser(q)

stillHasNoRealUsers_Unchecked(updatedParticipants) == TRUE

stillHasNoRealUsers_Inverted(updatedParticipants) ==
    \E q \in updatedParticipants : isRealUser(q)

stillHasNoRealUsers(updatedParticipants) ==
    ~(\E q \in updatedParticipants : isRealUser(q))

\* the for loop over rooms moves to the next room, or the pass returns;
\* the constants of the loop body go out of scope
NextRoom(ps) ==
    [ps EXCEPT !.i = @ + 1,
               !.pc = IF ps.i < Len(ps.rooms) THEN "listParticipants"
                      ELSE "done",
               !.participants = {}, !.todo = {}, !.called = {},
               !.removedCount = 0, !.updatedParticipants = {}]

\* the outer catch: the error is logged and the pass returns to its caller
OuterCatch(ps) == [ps EXCEPT !.pc = "done", !.aborted = TRUE]

\* history: the call the pass made for its i-th room failed
Failed(ps, op, id) == [ps EXCEPT !.failed = @ \cup {<<op, ps.i, id>>}]

\* what is kept of a pass that has returned: its history, not its locals
Returned(ps) ==
    [IdlePass EXCEPT !.pc = "done", !.aborted = ps.aborted,
                     !.unexamined = IF ps.i > Len(ps.rooms) THEN 0
                                    ELSE Len(ps.rooms) - ps.i,
                     !.acted = ps.acted, !.clean = ps.clean,
                     !.onStable = ps.onStable, !.afterSolo = ps.afterSolo,
                     !.failed = ps.failed]

\* the step of pass p ends in ps; a pass that returns hands its history over
Finish(p, ps) ==
    /\ pass' = [pass EXCEPT ![p] = IF ps.pc = "done" THEN Returned(ps) ELSE ps]
    /\ stable' = IF ps.pc = "done"
                 THEN stable \/ (ps.clean /\ ps.failed = {})
                 ELSE stable
    /\ soloDone' = IF ps.pc = "done" THEN soloDone \/ ps.clean ELSE soloDone

\* the pass starts: no other pass may be under way for it to count as alone
Begin(p) ==
    [q \in Passes |->
       IF q = p
       THEN [pass[p] EXCEPT !.clean = \A o \in Passes \ {p} : ~Running(o),
                            !.onStable = stable,
                            !.afterSolo = soloDone]
       ELSE IF Running(q) THEN [pass[q] EXCEPT !.clean = FALSE] ELSE pass[q]]

Room(ps) == ps.rooms[ps.i]

\* const rooms = await this.roomService.listRooms()
PassListRooms(p) ==
    /\ pass[p].pc = "scheduled"
    /\ pass[p].scope = "all"
    /\ \E ok \in Outcomes :
          LET b == Begin(p)[p]
              order == RouterRooms
              ps == IF ~ok THEN OuterCatch(Failed(b, "listRooms", NoIdent))
                    ELSE NextRoom([b EXCEPT !.rooms = order, !.i = 0])
          IN  /\ Spend(ok)
              /\ pass' = [Begin(p) EXCEPT
                            ![p] = IF ps.pc = "done" THEN Returned(ps) ELSE ps]
              /\ stable' = IF ps.pc = "done"
                           THEN stable \/ (ps.clean /\ ps.failed = {})
                           ELSE stable
              /\ soloDone' = IF ps.pc = "done" THEN soloDone \/ ps.clean
                             ELSE soloDone
    /\ UNCHANGED <<live, members, hooks, tracked, ctl, emitted, envBudget>>
    /\ UNCHANGED callVars

AfterListing_SkipEmpty(ps, participants) ==
    IF Cardinality(participants) = 0 \/ hasRealUsers(participants)
    THEN NextRoom(ps)
    ELSE [ps EXCEPT !.pc = "remove", !.todo = participants,
                    !.called = {}, !.removedCount = 0]

\* the branch taken on the listing of the room's participants
AfterListing(ps, participants) ==
    IF Cardinality(participants) = 0
    THEN [ps EXCEPT !.pc = "deleteEmpty"]
    ELSE IF ~hasRealUsers(participants)
         THEN [ps EXCEPT !.pc = "remove", !.todo = participants,
                         !.called = {}, !.removedCount = 0]
         ELSE NextRoom(ps)

\* const participants = await this.roomService.listParticipants(room.name)
PassListParticipants(p) ==
    /\ pass[p].pc = "listParticipants"
    /\ \E ok \in Outcomes :
          LET c == pass[p]
              got == RouterParticipants(Room(c))
              ps == IF ~ok THEN OuterCatch(Failed(c, "listParticipants", NoIdent))
                    ELSE AfterListing([c EXCEPT !.participants = got], got)
          IN  /\ Spend(ok)
              /\ Finish(p, ps)
    /\ UNCHANGED <<live, members, hooks, tracked, ctl, emitted, envBudget>>
    /\ UNCHANGED callVars

\* the router's deleteRoom: every participant is disconnected, the room ends
RouterDelete(r, done) ==
    IF done
    THEN /\ live' = live \ {r}
         /\ members' = [members EXCEPT ![r] = {}]
         /\ hooks' = hooks \cup
               Notify({Hook("participant_left", r, id) : id \in members[r]}
                      \cup {Hook("room_finished", r, NoIdent)})
         /\ Forget(r, members[r])
         /\ metadata' = [metadata EXCEPT ![r] = NoMetadata]
    ELSE UNCHANGED <<live, members, hooks, tracks, unsub, metadata, toggle>>

\* the catch around a deleteRoom call: logged, the loop goes on
CatchDelete(ps) == NextRoom(ps)

\* await this.roomService.deleteRoom(room.name), in either branch
DeleteStep(p, at) ==
    /\ pass[p].pc = at
    /\ \E ok \in Outcomes :
          LET r == Room(pass[p])
              done == ok /\ r \in live
              c == [pass[p] EXCEPT !.acted = TRUE]
              ps == IF done THEN NextRoom(c)
                    ELSE CatchDelete(Failed(c, "deleteRoom", NoIdent))
          IN  /\ Spend(ok)
              /\ RouterDelete(r, done)
              /\ Finish(p, ps)
    /\ UNCHANGED <<tracked, ctl, emitted, envBudget>>
    /\ UNCHANGED procVars

PassDeleteEmpty(p) == DeleteStep(p, "deleteEmpty")

AfterRemove_Early(ps) == [ps EXCEPT !.pc = "relist"]

\* the branch taken after one removeParticipant call
AfterRemove(ps) ==
    IF ps.todo = {} THEN [ps EXCEPT !.pc = "relist"] ELSE ps

CatchRemove_Rethrow(ps) == OuterCatch(ps)

\* the catch around a removeParticipant call: logged, the loop goes on
CatchRemove(ps) == AfterRemove(ps)

\* await this.roomService.removeParticipant(room.name, participant.identity)
PassRemove(p) ==
    /\ pass[p].pc = "remove"
    /\ \E id \in pass[p].todo : \E ok \in Outcomes :
          LET r == Room(pass[p])
              done == ok /\ r \in live /\ id \in members[r]
              c == [pass[p] EXCEPT !.acted = TRUE,
                                   !.todo = @ \ {id},
                                   !.called = @ \cup {id}]
              ps == IF done
                    THEN AfterRemove([c EXCEPT !.removedCount = @ + 1])
                    ELSE CatchRemove(Failed(c, "removeParticipant", id))
          IN  /\ Spend(ok)
              /\ IF done
                 THEN /\ members' = [members EXCEPT ![r] = @ \ {id}]
                      /\ hooks' = hooks \cup
                            Notify({Hook("participant_left", r, id)})
                      /\ Forget(r, {id})
                 ELSE UNCHANGED <<members, hooks, tracks, unsub, toggle>>
              /\ Finish(p, ps)
    /\ UNCHANGED <<live, tracked, ctl, emitted, envBudget, metadata>>
    /\ UNCHANGED procVars

\* the branch taken on the listing made after the removals
AfterRelist(ps, updatedParticipants) ==
    IF ~stillHasNoRealUsers(updatedParticipants)
    THEN NextRoom(ps)
    ELSE [ps EXCEPT !.pc = "deleteRoom"]

\* const updatedParticipants = await this.roomService.listParticipants(...)
PassRelist(p) ==
    /\ pass[p].pc = "relist"
    /\ \E ok \in Outcomes :
          LET c == pass[p]
              got == RouterParticipants(Room(c))
              ps == IF ~ok THEN OuterCatch(Failed(c, "relist", NoIdent))
                    ELSE AfterRelist([c EXCEPT !.updatedParticipants = got],
                                     got)
          IN  /\ Spend(ok)
              /\ Finish(p, ps)
    /\ UNCHANGED <<live, members, hooks, tracked, ctl, emitted, envBudget>>
    /\ UNCHANGED callVars

PassDeleteRoom(p) == DeleteStep(p, "deleteRoom")

\* the promise of the pass has settled; nothing awaits it
PassReturn(p) ==
    /\ pass[p].pc = "done"
    /\ pass' = [pass EXCEPT ![p] = IdlePass]
    /\ UNCHANGED <<live, members, hooks, tracked, ctl, emitted, failBudget,
                   envBudget, stable, soloDone>>
    /\ UNCHANGED callVars

(***************************************************************************)
(* The database.  The repositories behind DbService are not part of the    *)
(* source; they are modelled after the collaborator interface.             *)
(***************************************************************************)
CallIds == {"call-1", "call-2"}

NoCallId == ""

NoCall == [room |-> "", state |-> "none", callee |-> NoIdent]

\* devices: the user that the device with the voip token 'voip-1', and the
\* one with the apns token 'apns-1', belongs to
NoDevices == [voip |-> NoIdent, apns |-> NoIdent]

EmptyDb ==
    [users |-> {}, deviceOwner |-> NoDevices, roomMembers |-> {},
     calls |-> [c \in CallIds |-> NoCall],
     summaries |-> [c \in CallIds |-> 0]]

\* calls.create: a new row; the state column defaults to 'ringing'
CallsCreate(calls, id, roomName, calleeIdentity) ==
    [calls EXCEPT ![id] = [room |-> roomName, state |-> "ringing",
                           callee |-> calleeIdentity]]

\* calls.updateState: the state column of the row is overwritten
CallsUpdateState(calls, callId, state) ==
    IF calls[callId].state = "none" THEN calls
    ELSE [calls EXCEPT ![callId].state = state]

\* DbService.createCall
createCall(calls, id, roomName, calleeIdentity) ==
    CallsCreate(calls, id, roomName, calleeIdentity)

\* DbService.updateCallState
updateCallState(calls, callId, state) == CallsUpdateState(calls, callId, state)

\* DbService.getCallContextByRoomName: the call of the room, if any
getCallContextByRoomName(calls, roomName) ==
    IF \E c \in CallIds : calls[c].room = roomName
    THEN CHOOSE c \in CallIds : calls[c].room = roomName
    ELSE NoCallId

\* DbService.getCallSummary: a summary row of the call, or null
getCallSummary(summaries, callId) ==
    callId \in DOMAIN summaries /\ summaries[callId] > 0

\* DbService.createCallSummary: one more row in call_summaries
createCallSummary(summaries, callId) == [summaries EXCEPT ![callId] = @ + 1]

\* DbService.getCallForAnalysis: the call with its transcript, or null
getCallForAnalysis(calls, callId) == calls[callId].state # "none"

SetCalls(calls) == db' = [db EXCEPT !.calls = calls]

(***************************************************************************)
(* RtcTokenService.issueToken.                                             *)
(***************************************************************************)
VoipTokens == {"", "voip-1"}

\* the requests the process may be serving at the same time; a request that
\* was answered frees its place
Reqs == {1, 2}

\* no request in the slot
IdleReq == [pc |-> "idle"]

NoAnswer == [ok |-> FALSE, roomName |-> "", identity |-> NoIdent,
             role |-> "", callId |-> NoCallId]

\* room-${randomUUID()}: a name nothing has used before
FreshRooms_Any == Rooms

FreshRooms ==
    {r \in Rooms : /\ r \notin live
                   /\ \A c \in CallIds : db.calls[c].room # r
                   /\ \A m \in db.roomMembers : m[1] # r
                   /\ \A k \in Reqs : rtc[k].pc = "idle" \/ rtc[k].roomName # r
                   /\ r \notin hist.returned}

FreshCallIds == {c \in CallIds : db.calls[c].state = "none"}

\* the identity the device token is registered for wins over the requested one
ResolveIdentity(identity, voipToken) ==
    IF voipToken # "" /\ db.deviceOwner.voip # NoIdent
    THEN db.deviceOwner.voip
    ELSE identity

IssueToken(paramsRoomName, paramsIdentity, voipToken, role, isAuthenticated) ==
    LET isIosUser == voipToken # ""
        identity == ResolveIdentity(paramsIdentity, voipToken)
    IN
    /\ envBudget > 0
    /\ envBudget' = envBudget - 1
    /\ IF ~isAuthenticated /\ identity \notin db.users
       THEN \* throw new Error('로그인이 필요합니다')
            /\ issued' = NoAnswer
            /\ UNCHANGED <<db, emitted, failBudget>>
       ELSE IF ~isIosUser
       THEN \* web admin: no room, no call
            /\ db' = [db EXCEPT !.users = @ \cup {identity}]
            /\ issued' = [ok |-> TRUE, roomName |-> paramsRoomName,
                          identity |-> identity, role |-> role,
                          callId |-> NoCallId]
            /\ UNCHANGED <<emitted, failBudget>>
       ELSE \E roomName \in FreshRooms \ {paramsRoomName}, id \in FreshCallIds,
               ok \in Outcomes :
            /\ Spend(ok)
            /\ db' = [db EXCEPT
                        !.users = @ \cup {identity},
                        !.roomMembers = @ \cup {<<roomName, identity>>},
                        !.calls = IF ok
                                  THEN createCall(@, id, roomName, identity)
                                  ELSE @,
                        !.deviceOwner.voip = identity]
            /\ emitted' = RoomEvent("room-created", roomName, identity)
            /\ issued' = [ok |-> TRUE, roomName |-> roomName,
                          identity |-> identity, role |-> role,
                          callId |-> IF ok THEN id ELSE NoCallId]
    /\ UNCHANGED <<live, members, hooks, tracked, ctl, pass, stable, soloDone,
                   task, invoked, hist>>
    /\ UNCHANGED <<response, takeVars, mediaVars, rtc, auth>>

(***************************************************************************)
(* POST /v1/rtc/token: RtcController.issueToken and the                    *)
(* RtcTokenService.issueToken it awaits, one step per awaited call.        *)
(***************************************************************************)
kakao_2 == <<"k", "a", "k", "a", "o", "_", "2">>

\* a field the JSON body does not have; a JSON number where a string is
\* expected
Absent == "<absent>"
NotAString == "<number>"

\* String.prototype.trim
trim(s) == IF s = " " THEN "" ELSE s

\* the JSON bodies; livekitUrl, name, platform, env and supportsCallKit are
\* absent
Bodies ==
    [roomName : {"room-a", "room-x", " ", Absent, NotAString},
     identity : {NoIdent, admin_1},
     role : {"host", "observer", "owner", Absent},
     voipToken : VoipTokens,
     apnsToken : {"", "apns-1"}]

\* the caller sees the requests in the order it sent them
FreeReq(k) ==
    /\ rtc[k].pc \in {"idle", "responded"}
    /\ \A j \in Reqs : j < k => rtc[j].pc \notin {"idle", "responded"}

\* the request the controller has received
NewReq(bearer, authRequired, body) ==
    [pc |-> "posted",
     req |-> [bearer |-> bearer, authRequired |-> authRequired,
              body |-> body],
     isAuthenticated |-> FALSE, roomName |-> "", identity |-> NoIdent,
     role |-> "", candidates |-> <<>>, callId |-> NoCallId,
     agent |-> "none", status |-> NoResponse, grant |-> {}]

addGrant_PublishAll(role) ==
    {"roomJoin", "canSubscribe", "canPublish", "canPublishData"}
    \cup (IF role = "host" THEN {"roomAdmin", "hidden"} ELSE {})

\* accessToken.addGrant({...}): the grants that are true
addGrant(role) ==
    {"roomJoin", "canSubscribe"}
    \cup (IF role # "observer" THEN {"canPublish", "canPublishData"} ELSE {})
    \cup (IF role = "host" THEN {"roomAdmin", "hidden"} ELSE {})

\* the request is answered: with the token (201) and its grants, with an
\* HttpException (400, 401), or with the 500 of an error that nothing caught
Respond(r, status) ==
    [r EXCEPT !.pc = "responded", !.status = status,
              !.grant = IF status = "201 token" THEN addGrant(r.role) ELSE @]

isIosUser_Always(r) == TRUE

\* const isIosUser = !!(params.device?.apnsToken || params.device?.voipToken)
isIosUser(r) == r.req.body.voipToken # "" \/ r.req.body.apnsToken # ""

RoomNames_AsSupplied(r, roomName) == {roomName}

\* const roomName = isIosUser ? `room-${randomUUID()}` : params.roomName
RoomNames(r, roomName) ==
    IF isIosUser(r) THEN FreshRooms \ {roomName} ELSE {roomName}

Candidates_ApnsFirst(body) ==
    (IF body.apnsToken # "" THEN <<"apns">> ELSE <<>>)
    \o (IF body.voipToken # "" THEN <<"voip">> ELSE <<>>)

\* the token types to look a user up by: voip is pushed first, then apns
Candidates(body) ==
    (IF body.voipToken # "" THEN <<"voip">> ELSE <<>>)
    \o (IF body.apnsToken # "" THEN <<"apns">> ELSE <<>>)

Override_Keep(r, existing) == r

\* if (existing) { identity = existing.identity; ...; break }
Override(r, existing) == [r EXCEPT !.identity = existing]

\* what the requests leave alone
RtcFrame ==
    /\ UNCHANGED <<live, members, hooks, tracked, ctl, pass, envBudget,
                   stable, soloDone, task, invoked, issued, response, auth>>
    /\ UNCHANGED <<takeVars, mediaVars>>

AfterLookup_Upsert(r) == [r EXCEPT !.candidates = <<>>, !.pc = "upsertUser"]

\* if (params.isAuthenticated) upsertUser else findUserByIdentity
AfterLookup(r) ==
    [r EXCEPT !.candidates = <<>>,
              !.pc = IF r.isAuthenticated THEN "upsertUser"
                     ELSE "findUserByIdentity"]

\* if (isIosUser) { upsertRoomMember ... } else the token is returned
AfterUser(r) ==
    IF isIosUser(r) THEN [r EXCEPT !.pc = "upsertRoomMember"]
    ELSE Respond(r, "201 token")

SuppliedIdentity_BodyFirst(authIdentity, body) ==
    IF body.identity # NoIdent THEN body.identity ELSE authIdentity

\* (authIdentity ?? body.identity)?.trim()
SuppliedIdentity(authIdentity, body) ==
    IF authIdentity # NoIdent THEN authIdentity ELSE body.identity

\* RtcController.issueToken up to the call of the service, and the service
\* up to its first awaited call: the bearer is a Kakao access token of
\* kakao_1, the access token of the active admin 1, an API token with the
\* identity admin_1, or none of them
RtcControllerIssueToken(k, bearer, authRequired, body) ==
    LET authIdentity ==
           IF bearer = "kakao"
           THEN IF kakao_1 \in db.users THEN kakao_1 ELSE NoIdent
           ELSE IF bearer \in {"admin", "api"} THEN admin_1
           ELSE NoIdent
        roomName == trim(body.roomName)
        identity == SuppliedIdentity(authIdentity, body)
        role == IF body.role = Absent THEN "viewer" ELSE body.role
        status ==
           IF bearer \in {"", "garbage"} /\ authRequired
           THEN "401 Unauthorized"
           ELSE IF body.roomName = NotAString
           THEN "500 roomName.trim is not a function"
           ELSE IF body.roomName = Absent \/ roomName = ""
           THEN "400 roomName is required"
           ELSE IF identity = NoIdent THEN "400 identity is required"
           ELSE IF role \notin {"host", "viewer", "observer"}
           THEN "400 invalid role"
           ELSE NoResponse
        r == NewReq(bearer, authRequired, body)
        candidates == Candidates(body)
        params == [r EXCEPT !.isAuthenticated = authIdentity # NoIdent,
                            !.identity = identity,
                            !.role = role]
    IN
    /\ envBudget > 0
    /\ FreeReq(k)
    /\ envBudget' = envBudget - 1
    /\ IF status # NoResponse
       THEN rtc' = [rtc EXCEPT ![k] = Respond(r, status)]
       ELSE \E name \in RoomNames(r, roomName) :
               rtc' = [rtc EXCEPT
                         ![k] = IF candidates = <<>>
                                THEN AfterLookup([params EXCEPT
                                                    !.roomName = name])
                                ELSE [params EXCEPT
                                        !.pc = "findUserByDeviceToken",
                                        !.roomName = name,
                                        !.candidates = candidates]]
    /\ UNCHANGED <<live, members, hooks, tracked, ctl, pass, failBudget,
                   stable, soloDone, emitted, db, task, invoked, hist,
                   issued, response, auth>>
    /\ UNCHANGED <<takeVars, mediaVars>>

\* const existing = await this.dbService.findUserByDeviceToken(candidate)
TokenFindUserByDeviceToken(k) ==
    /\ rtc[k].pc = "findUserByDeviceToken"
    /\ \E ok \in Outcomes :
          LET r == rtc[k]
              existing == db.deviceOwner[Head(r.candidates)]
          IN
          /\ Spend(ok)
          /\ rtc' = [rtc EXCEPT
                       ![k] = IF ~ok THEN Respond(r, "500 Internal server error")
                              ELSE IF existing # NoIdent
                              THEN AfterLookup(Override(r, existing))
                              ELSE IF Tail(r.candidates) = <<>>
                              THEN AfterLookup(r)
                              ELSE [r EXCEPT !.candidates = Tail(@)]]
    /\ RtcFrame
    /\ UNCHANGED <<db, emitted, hist>>

\* user = await this.dbService.upsertUser(identity, name)
TokenUpsertUser(k) ==
    /\ rtc[k].pc = "upsertUser"
    /\ \E ok \in Outcomes :
          /\ Spend(ok)
          /\ rtc' = [rtc EXCEPT
                       ![k] = IF ok THEN AfterUser(@)
                              ELSE Respond(@, "500 Internal server error")]
          /\ db' = IF ok THEN [db EXCEPT !.users = @ \cup {rtc[k].identity}]
                   ELSE db
    /\ RtcFrame
    /\ UNCHANGED <<emitted, hist>>

\* user = await this.dbService.findUserByIdentity(identity);
\* if (!user) throw new Error('로그인이 필요합니다')
TokenFindUserByIdentity(k) ==
    /\ rtc[k].pc = "findUserByIdentity"
    /\ \E ok \in Outcomes :
          /\ Spend(ok)
          /\ rtc' = [rtc EXCEPT
                       ![k] = IF ok /\ rtc[k].identity \in db.users
                              THEN AfterUser(@)
                              ELSE Respond(@, "500 Internal server error")]
    /\ RtcFrame
    /\ UNCHANGED <<db, emitted, hist>>

\* await this.dbService.upsertRoomMember(...); then the room-created event
\* is emitted and dispatchVoiceAgent is called
TokenUpsertRoomMember(k) ==
    /\ rtc[k].pc = "upsertRoomMember"
    /\ \E ok \in Outcomes :
          LET r == rtc[k] IN
          /\ Spend(ok)
          /\ rtc' = [rtc EXCEPT
                       ![k] = IF ok THEN [r EXCEPT !.pc = "dispatchVoiceAgent"]
                              ELSE Respond(r, "500 Internal server error")]
          /\ db' = IF ok
                   THEN [db EXCEPT !.roomMembers =
                                      @ \cup {<<r.roomName, r.identity>>}]
                   ELSE db
          /\ emitted' = IF ok
                        THEN RoomEvent("room-created", r.roomName, r.identity)
                        ELSE emitted
    /\ RtcFrame
    /\ UNCHANGED hist

\* await this.liveKitService.dispatchVoiceAgent(roomName, ...): the dispatch
\* has ended; a failure was caught in dispatchVoiceAgent; createCall is called
TokenDispatchVoiceAgent(k) ==
    /\ rtc[k].pc = "dispatchVoiceAgent"
    /\ \E ok \in Outcomes :
          /\ Spend(ok)
          /\ rtc' = [rtc EXCEPT
                       ![k] = [@ EXCEPT
                                 !.pc = "createCall",
                                 !.agent = IF ok THEN "dispatched"
                                           ELSE "failed"]]
    /\ RtcFrame
    /\ UNCHANGED <<db, emitted, hist>>

CallCatch_Rethrow(r) == Respond(r, "500 Internal server error")

\* catch (error) { this.logger.warn(`Auto call record failed ...`) }
CallCatch(r) == [r EXCEPT !.pc = "upsertDevice"]

\* try { const call = await this.dbService.createCall(...) } catch; then
\* registerDevice is called
TokenCreateCall(k) ==
    /\ rtc[k].pc = "createCall"
    /\ \E ok \in Outcomes :
          LET r == rtc[k] IN
          /\ Spend(ok)
          /\ IF ok
             THEN \E id \in FreshCallIds :
                     /\ db' = [db EXCEPT
                                 !.calls = createCall(@, id, r.roomName,
                                                      r.identity)]
                     /\ rtc' = [rtc EXCEPT
                                  ![k] = [r EXCEPT !.pc = "upsertDevice",
                                                   !.callId = id]]
             ELSE /\ rtc' = [rtc EXCEPT ![k] = CallCatch(r)]
                  /\ UNCHANGED db
    /\ RtcFrame
    /\ UNCHANGED <<emitted, hist>>

\* await this.registerDevice(...): DbService.upsertDevice; then the token
\* is signed and returned
TokenUpsertDevice(k) ==
    /\ rtc[k].pc = "upsertDevice"
    /\ \E ok \in Outcomes :
          LET r == rtc[k]
              done == ok /\ r.identity \in db.users
              body == r.req.body
          IN
          /\ Spend(ok)
          /\ rtc' = [rtc EXCEPT
                       ![k] = IF done THEN Respond(r, "201 token")
                              ELSE Respond(r, "500 Internal server error")]
          /\ db' = IF done
                   THEN [db EXCEPT
                           !.deviceOwner =
                              [voip |-> IF body.voipToken # ""
                                        THEN r.identity ELSE @.voip,
                               apns |-> IF body.apnsToken # ""
                                        THEN r.identity ELSE @.apns]]
                   ELSE db
          /\ hist' = IF done
                     THEN [hist EXCEPT !.returned = @ \cup {r.roomName}]
                     ELSE hist
    /\ RtcFrame
    /\ UNCHANGED emitted

(***************************************************************************)
(* LiveKitWebhookController.handleWebhook.                                 *)
(***************************************************************************)
Tasks == {1, 2}

IdleTask ==
    [pc |-> "idle", room |-> "", callId |-> NoCallId, hadSummary |-> FALSE,
     analyzed |-> FALSE, failed |-> FALSE]

NoHistory ==
    [overlap |-> [c \in CallIds |-> FALSE],
     failedFor |-> [c \in CallIds |-> FALSE],
     handled |-> [c \in CallIds |-> FALSE],
     returned |-> {}]

InFlight(t) == task[t].pc \notin {"idle", "scheduled", "done"}

FreeTask(t) ==
    /\ task[t].pc = "idle"
    /\ \A u \in Tasks : u < t => task[u].pc # "idle"

\* the router, or anybody else, posts a webhook: the signature is not verified
Deliver(ev, r, id) ==
    /\ envBudget > 0
    /\ hooks = {}
    /\ envBudget' = envBudget - 1
    /\ hooks' = {Hook(ev, r, id)}
    /\ response' = NoResponse
    /\ UNCHANGED <<live, members, tracked, ctl, emitted, pass, failBudget,
                   stable, soloDone>>
    /\ UNCHANGED <<db, task, invoked, hist, issued, rtc, auth, takeVars,
                   mediaVars>>

ParticipantJoined_Answers(h) ==
    /\ h \in hooks
    /\ h.event = "participant_joined"
    /\ hooks' = hooks \ {h}
    /\ emitted' = RoomEvent("participant-joined", h.room, h.identity)
    /\ response' = Success
    /\ db' = [db EXCEPT
                !.calls = [c \in CallIds |->
                             IF @[c].room = h.room /\ @[c].state = "ringing"
                             THEN [@[c] EXCEPT !.state = "answered"]
                             ELSE @[c]]]
    /\ UNCHANGED <<live, members, tracked, ctl, pass, failBudget, envBudget,
                   stable, soloDone>>
    /\ UNCHANGED <<task, invoked, hist, issued, rtc, auth, takeVars,
                   mediaVars>>

\* participant_joined, in both controllers: the event is re-emitted
ParticipantJoined(h) ==
    /\ h \in hooks
    /\ h.event = "participant_joined"
    /\ hasParticipantAndRoom(h)
    /\ hooks' = hooks \ {h}
    /\ emitted' = RoomEvent("participant-joined", h.room, h.identity)
    /\ UNCHANGED <<live, members, tracked, ctl, pass, failBudget, envBudget,
                   stable, soloDone>>
    /\ response' = Success
    /\ UNCHANGED <<db, task, invoked, hist, issued, rtc, auth, takeVars,
                   mediaVars>>

\* the second controller: the deferred task is closeRoomIfAdminOnly(room.name)
ParticipantLeftV2(h, p) ==
    /\ ctl = "v2"
    /\ h \in hooks
    /\ h.event = "participant_left"
    /\ hasParticipantAndRoom(h)
    /\ FreeSlot(p)
    /\ hooks' = hooks \ {h}
    /\ emitted' = RoomEvent("participant-left", h.room, h.identity)
    /\ pass' = [pass EXCEPT ![p] = Scheduled(h.room)]
    /\ UNCHANGED <<live, members, tracked, ctl, failBudget, envBudget, stable,
                   soloDone>>
    /\ response' = Success
    /\ UNCHANGED <<db, task, invoked, hist, issued, rtc, auth, takeVars,
                   mediaVars>>

\* closeRoomIfAdminOnly(roomName): the reaper's loop body for the one room
PassStartScoped(p) ==
    /\ pass[p].pc = "scheduled"
    /\ pass[p].scope # "all"
    /\ pass' = [Begin(p) EXCEPT
                  ![p] = [@ EXCEPT !.rooms = <<pass[p].scope>>, !.i = 1,
                                   !.pc = "listParticipants"]]
    /\ UNCHANGED <<live, members, hooks, tracked, ctl, emitted, failBudget,
                   envBudget, stable, soloDone>>
    /\ UNCHANGED callVars

\* room_finished in the first controller: the event is re-emitted, no more
RoomFinishedV1(h) ==
    /\ ctl = "v1"
    /\ h \in hooks
    /\ h.event = "room_finished"
    /\ h.room # ""
    /\ hooks' = hooks \ {h}
    /\ emitted' = RoomEvent("room-updated", h.room, NoIdent)
    /\ UNCHANGED <<live, members, tracked, ctl, pass, failBudget, envBudget,
                   stable, soloDone>>
    /\ response' = Success
    /\ UNCHANGED <<db, task, invoked, hist, issued, rtc, auth, takeVars,
                   mediaVars>>

\* room_finished in the second controller: the analysis task is deferred
RoomFinishedV2(h, t) ==
    /\ ctl = "v2"
    /\ h \in hooks
    /\ h.event = "room_finished"
    /\ h.room # ""
    /\ FreeTask(t)
    /\ hooks' = hooks \ {h}
    /\ emitted' = RoomEvent("room-updated", h.room, NoIdent)
    /\ task' = [task EXCEPT ![t] = [IdleTask EXCEPT !.pc = "scheduled",
                                                    !.room = h.room]]
    /\ UNCHANGED <<live, members, tracked, ctl, pass, failBudget, envBudget,
                   stable, soloDone, db, invoked, hist, issued, rtc, auth>>
    /\ response' = Success
    /\ UNCHANGED <<takeVars, mediaVars>>

RejectWebhook_Acknowledged(h) ==
    /\ h \in hooks
    /\ h = NoBody
    /\ hooks' = hooks \ {h}
    /\ response' = Success
    /\ UNCHANGED <<live, members, tracked, ctl, emitted, pass, failBudget,
                   envBudget, stable, soloDone>>
    /\ UNCHANGED <<db, task, invoked, hist, issued, rtc, auth, takeVars,
                   mediaVars>>

\* if (!event) throw new Error('Event body is missing'): the catch answers 400
RejectWebhook(h) ==
    /\ h \in hooks
    /\ h = NoBody
    /\ hooks' = hooks \ {h}
    /\ response' = BadRequest
    /\ UNCHANGED <<live, members, tracked, ctl, emitted, pass, failBudget,
                   envBudget, stable, soloDone>>
    /\ UNCHANGED <<db, task, invoked, hist, issued, rtc, auth, takeVars,
                   mediaVars>>

\* a body none of the three branches acts on: another event, or an event
\* without the room or the participant its branch asks for
IgnoreWebhook(h) ==
    /\ h \in hooks
    /\ h # NoBody
    /\ \/ h.event \notin {"participant_joined", "participant_left",
                          "room_finished"}
       \/ h.event = "room_finished" /\ h.room = ""
       \/ h.event # "room_finished" /\ ~hasParticipantAndRoom(h)
    /\ hooks' = hooks \ {h}
    /\ response' = Success
    /\ UNCHANGED <<live, members, tracked, ctl, emitted, pass, failBudget,
                   envBudget, stable, soloDone>>
    /\ UNCHANGED <<db, task, invoked, hist, issued, rtc, auth, takeVars,
                   mediaVars>>

(***************************************************************************)
(* LiveKitService.muteAgentInRoom, one step per awaited router call.       *)
(***************************************************************************)
Toggles == {1, 2}

\* no call in the slot
IdleToggle == [pc |-> "idle"]

\* the locals of a call that starts, and its history
NewToggle(r, mute) ==
    [pc |-> "listParticipants", room |-> r, mute |-> mute, agents |-> {},
     todo |-> {}, sids |-> {}, tried |-> {}, failed |-> {},
     disturbed |-> FALSE, raced |-> FALSE]

\* no data message has been delivered
NoData == [room |-> "", data |-> "", destinationIdentities |-> {}]

\* the caller sees the toggles in the order it started them
FreeToggle(k) ==
    /\ toggle[k].pc = "idle"
    /\ \A j \in Toggles : j < k => toggle[j].pc # "idle"

\* track.type === 1, which the source calls the audio type
AUDIO == 1

TrackTypes == {0, 1}

agentsOf(participants) == {q \in participants : startsWith(q, AgentPrefix)}

\* the sids of the type-1 tracks that the listed participants `owners` publish
audioTracks(r, owners) ==
    {t \in tracks : t.room = r /\ t.owner \in owners /\ t.type = AUDIO}

\* JSON.stringify({ takeover: mute, timestamp: Date.now() }), the timestamp
\* left out
TakeoverMetadata(mute) ==
    IF mute THEN "{takeover:true}" ELSE "{takeover:false}"

\* the catch of muteAgentInRoom: the error is logged and thrown on
ThrowErr(ts, channel) ==
    [ts EXCEPT !.pc = "threw", !.failed = @ \cup {channel}]

\* toggle j is under way on room r with the other mute value
Opposes(j, r, mute) ==
    InToggle(j) /\ toggle[j].room = r /\ toggle[j].mute # mute

\* somebody calls muteAgentInRoom(roomName, mute); history: the call and
\* the calls under way on the room with the other mute value race
muteAgentInRoom(k, r, mute) ==
    /\ envBudget > 0
    /\ FreeToggle(k)
    /\ envBudget' = envBudget - 1
    /\ toggle' = [j \in DOMAIN toggle |->
                    IF j = k
                    THEN [NewToggle(r, mute) EXCEPT
                            !.raced = \E i \in Toggles : Opposes(i, r, mute)]
                    ELSE IF Opposes(j, r, mute)
                    THEN [toggle[j] EXCEPT !.raced = TRUE]
                    ELSE toggle[j]]
    /\ UNCHANGED <<live, members, hooks, tracked, ctl, emitted, pass,
                   failBudget, stable, soloDone>>
    /\ UNCHANGED <<procVars, mediaVars>>

\* a step of toggle k that leaves the router as it is
ToggleStep(k, ts) ==
    /\ toggle' = [toggle EXCEPT ![k] = ts]
    /\ UNCHANGED <<live, members, hooks, tracked, ctl, emitted, pass,
                   envBudget, stable, soloDone>>
    /\ UNCHANGED <<procVars, mediaVars>>

noAgents_Never(agents) == FALSE

\* if (agents.length === 0)
noAgents(agents) == agents = {}

\* const participants = await this.roomService.listParticipants(roomName)
MuteListParticipants(k) ==
    /\ toggle[k].pc = "listParticipants"
    /\ \E ok \in Outcomes :
          LET agents == agentsOf(RouterParticipants(toggle[k].room)) IN
          /\ Spend(ok)
          /\ ToggleStep(k,
                IF ~ok THEN ThrowErr(toggle[k], "listParticipants")
                ELSE IF noAgents(agents)
                THEN [toggle[k] EXCEPT !.pc = "returned"]
                ELSE [toggle[k] EXCEPT !.pc = "updateAgentSubscriptions",
                                       !.agents = agents])

\* updateAgentSubscriptions up to its loop: the listing, the agents and the
\* type-1 tracks of the participants that are neither agent nor admin
updateAgentSubscriptions(k) ==
    /\ toggle[k].pc = "updateAgentSubscriptions"
    /\ \E ok \in Outcomes :
          LET r == toggle[k].room
              participants == RouterParticipants(r)
              agents == agentsOf(participants)
              nonAgentAudioTracks ==
                 audioTracks(r, {q \in participants : isRealUser(q)})
              ts == [toggle[k] EXCEPT !.tried = @ \cup {"subscriptions"}]
          IN
          /\ Spend(ok)
          /\ ToggleStep(k,
                IF ~ok THEN ThrowErr(ts, "subscriptions")
                ELSE IF agents = {} \/ nonAgentAudioTracks = {}
                THEN [ts EXCEPT !.pc = "updateIosSubscriptionsToAgent"]
                ELSE [ts EXCEPT !.pc = "agent.updateSubscriptions",
                                !.todo = agents,
                                !.sids = nonAgentAudioTracks])

subscribe_AsMute(mute) == mute

\* !mute: subscribe when mute is false, unsubscribe when mute is true
subscribe(mute) == ~mute

\* the router's updateSubscriptions for a participant of the room
RouterUpdateSubscriptions(r, identity, trackSids, on) ==
    LET pairs == {<<identity, t>> : t \in trackSids \cap tracks} IN
    unsub' = IF on THEN unsub \ pairs ELSE unsub \cup pairs

\* await this.roomService.updateSubscriptions(roomName, identity, tracks,
\* !mute) in the loop of either function; a failure is caught and logged
UpdateSubscriptions(k, at, next) ==
    /\ toggle[k].pc = at
    /\ \E identity \in toggle[k].todo : \E ok \in Outcomes :
          LET r == toggle[k].room
              done == ok /\ identity \in RouterParticipants(r)
              c == [toggle[k] EXCEPT
                      !.todo = @ \ {identity},
                      !.failed = IF done THEN @ ELSE @ \cup {"subscriptions"}]
              ts == IF c.todo = {}
                    THEN [c EXCEPT !.pc = next, !.sids = {}]
                    ELSE c
          IN
          /\ Spend(ok)
          /\ IF done
             THEN /\ RouterUpdateSubscriptions(r, identity, toggle[k].sids,
                                               subscribe(toggle[k].mute))
                  /\ toggle' = [Disturb(r, k) EXCEPT ![k] = ts]
             ELSE /\ toggle' = [toggle EXCEPT ![k] = ts]
                  /\ UNCHANGED unsub
    /\ UNCHANGED <<live, members, hooks, tracked, ctl, emitted, pass,
                   envBudget, stable, soloDone, tracks, metadata>>
    /\ UNCHANGED procVars

AgentUpdateSubscriptions(k) ==
    UpdateSubscriptions(k, "agent.updateSubscriptions",
                        "updateIosSubscriptionsToAgent")

\* updateIosSubscriptionsToAgent up to its loop: the listing, the real
\* users and the type-1 tracks of the agents
updateIosSubscriptionsToAgent(k) ==
    /\ toggle[k].pc = "updateIosSubscriptionsToAgent"
    /\ \E ok \in Outcomes :
          LET r == toggle[k].room
              participants == RouterParticipants(r)
              iosUsers == {q \in participants : isRealUser(q)}
              agentAudioTracks == audioTracks(r, agentsOf(participants))
          IN
          /\ Spend(ok)
          /\ ToggleStep(k,
                IF ~ok THEN ThrowErr(toggle[k], "subscriptions")
                ELSE IF iosUsers = {} \/ agentAudioTracks = {}
                THEN [toggle[k] EXCEPT !.pc = "sendDataToRoom"]
                ELSE [toggle[k] EXCEPT !.pc = "ios.updateSubscriptions",
                                       !.todo = iosUsers,
                                       !.sids = agentAudioTracks])

IosUpdateSubscriptions(k) ==
    UpdateSubscriptions(k, "ios.updateSubscriptions", "sendDataToRoom")

\* await this.sendDataToRoom(roomName, message, agentIdentities)
sendDataToRoom(k) ==
    /\ toggle[k].pc = "sendDataToRoom"
    /\ \E ok \in Outcomes :
          LET r == toggle[k].room
              done == ok /\ r \in live
              message == IF toggle[k].mute THEN "takeover:start"
                         ELSE "takeover:end"
              ts == [toggle[k] EXCEPT !.tried = @ \cup {"data"}]
          IN
          /\ Spend(ok)
          /\ toggle' = [toggle EXCEPT
                          ![k] = IF done
                                 THEN [ts EXCEPT !.pc = "updateRoomMetadata"]
                                 ELSE ThrowErr(ts, "data")]
          /\ sent' = IF done
                     THEN [room |-> r, data |-> message,
                           destinationIdentities |-> toggle[k].agents]
                     ELSE sent
    /\ UNCHANGED <<live, members, hooks, tracked, ctl, emitted, pass,
                   envBudget, stable, soloDone>>
    /\ UNCHANGED <<db, task, invoked, hist, issued, rtc, auth, response,
                   mediaVars>>

\* await this.updateRoomMetadata(roomName, metadata); then the toggle returns
updateRoomMetadata(k) ==
    /\ toggle[k].pc = "updateRoomMetadata"
    /\ \E ok \in Outcomes :
          LET r == toggle[k].room
              done == ok /\ r \in live
              ts == [toggle[k] EXCEPT !.tried = @ \cup {"metadata"}]
          IN
          /\ Spend(ok)
          /\ toggle' = [toggle EXCEPT
                          ![k] = IF done THEN [ts EXCEPT !.pc = "returned"]
                                 ELSE ThrowErr(ts, "metadata")]
          /\ metadata' = IF done
                         THEN [metadata EXCEPT
                                 ![r] = TakeoverMetadata(toggle[k].mute)]
                         ELSE metadata
    /\ UNCHANGED <<live, members, hooks, tracked, ctl, emitted, pass,
                   envBudget, stable, soloDone, tracks, unsub>>
    /\ UNCHANGED procVars

\* the caller has the outcome of the toggle
ToggleSettled(k) ==
    /\ toggle[k].pc \in {"returned", "threw"}
    /\ \A j \in Toggles : j > k => toggle[j].pc = "idle"
    /\ toggle' = [toggle EXCEPT ![k] = IdleToggle]
    /\ UNCHANGED <<live, members, hooks, tracked, ctl, emitted, pass,
                   failBudget, envBudget, stable, soloDone>>
    /\ UNCHANGED <<procVars, mediaVars>>

\* a participant of the room publishes a track
Publish(r, id, type) ==
    /\ envBudget > 0
    /\ id \in RouterParticipants(r)
    /\ Track(r, id, type) \notin tracks
    /\ envBudget' = envBudget - 1
    /\ tracks' = tracks \cup {Track(r, id, type)}
    /\ toggle' = Disturb(r, 0)
    /\ UNCHANGED <<live, members, hooks, tracked, ctl, emitted, pass,
                   failBudget, stable, soloDone, unsub, metadata>>
    /\ UNCHANGED procVars

(***************************************************************************)
(* The reaper with the router and the first controller.                    *)
(***************************************************************************)
\* no room exists; the behaviour may hold so many environment events and
\* so many failed calls
InitRouter(events, failures) ==
    /\ live = {}
    /\ members = [r \in Rooms |-> {}]
    /\ hooks = {}
    /\ emitted = NoEvent
    /\ pass = [p \in Passes |-> IdlePass]
    /\ failBudget = failures
    /\ envBudget = events
    /\ stable = FALSE
    /\ soloDone = FALSE
    /\ tracks = {}
    /\ unsub = {}
    /\ metadata = [r \in Rooms |-> NoMetadata]

\* a refresh token that jwt.verify rejects
NoToken == <<>>

\* no user row, no call under way
NoAuth ==
    [users |-> {}, wards |-> {}, refreshTokens |-> {}, guardian |-> FALSE,
     now |-> 0, nextId |-> 1, call |-> [k \in Reqs |-> IdleReq]]

InitProcess ==
    /\ task = [t \in Tasks |-> IdleTask]
    /\ invoked = [c \in CallIds |-> 0]
    /\ hist = NoHistory
    /\ issued = NoAnswer
    /\ response = NoResponse
    /\ sent = NoData
    /\ toggle = [t \in Toggles |-> IdleToggle]
    /\ rtc = [k \in Reqs |-> IdleReq]

InitReap ==
    /\ InitRouter(MaxEnv, MaxFail)
    /\ InitProcess
    /\ auth = NoAuth
    /\ db = EmptyDb
    /\ tracked = {"participant_left"}
    /\ ctl = "v1"

NextReap ==
    \/ \E r \in Rooms, id \in Idents : Join(r, id)
    \/ \E r \in Rooms, id \in Idents : Leave(r, id)
    \/ \E r \in Rooms : RoomTimeout(r)
    \/ \E h \in hooks, p \in Passes : ParticipantLeftV1(h, p)
    \/ \E p \in Passes : PassListRooms(p)
    \/ \E p \in Passes : PassListParticipants(p)
    \/ \E p \in Passes : PassDeleteEmpty(p)
    \/ \E p \in Passes : PassRemove(p)
    \/ \E p \in Passes : PassRelist(p)
    \/ \E p \in Passes : PassDeleteRoom(p)
    \/ \E p \in Passes : PassReturn(p)

SpecReap == InitReap /\ [][NextReap]_vars

(***************************************************************************)
(* The deferred task of room_finished and AiService.analyzeCall, one step  *)
(* per awaited database or provider call; the step carries the call out    *)
(* and runs the task up to its next await.                                 *)
(***************************************************************************)
TaskCatch_Rethrow(ts) == [ts EXCEPT !.pc = "raised", !.failed = TRUE]

\* the catch of the deferred task: the error is logged, the task ends
TaskCatch(ts) == [ts EXCEPT !.pc = "done", !.failed = TRUE]

TaskEnd(ts) == [ts EXCEPT !.pc = "done"]

\* history: a call of a task for call c failed; a task for c has ended
Note(ts, c) ==
    hist' = [hist EXCEPT
               !.failedFor[c] = @ \/ ts.failed,
               !.handled[c] = @ \/ ts.pc = "done"]

RoomFinishedTargetState_Answered == "answered"

\* the state the task passes to updateCallState
RoomFinishedTargetState == "ended"

existingSummary_Ignored(summaries, callId) == FALSE

\* if (existingSummary): the call is already analysed
existingSummary(summaries, callId) == getCallSummary(summaries, callId)

hasCallId_Always(c) == TRUE

\* if (callContext?.call_id): a call is recorded for the room
hasCallId(c) == c # NoCallId

\* const callContext = await this.dbService.getCallContextByRoomName(room.name)
TaskGetCallContext(t) ==
    /\ task[t].pc = "scheduled"
    /\ \E ok \in Outcomes :
          LET c == getCallContextByRoomName(db.calls, task[t].room) IN
          /\ Spend(ok)
          /\ IF ~ok
             THEN /\ task' = [task EXCEPT ![t] = TaskCatch(@)]
                  /\ UNCHANGED hist
             ELSE IF ~hasCallId(c)
             THEN \* No call context found, skipping analysis
                  /\ task' = [task EXCEPT ![t] = TaskEnd(@)]
                  /\ UNCHANGED hist
             ELSE /\ task' = [task EXCEPT
                                ![t] = [@ EXCEPT
                                          !.pc = "updateCallState",
                                          !.callId = c,
                                          !.hadSummary =
                                             getCallSummary(db.summaries,
                                                            c)]]
                  /\ hist' = [hist EXCEPT
                                !.overlap[c] =
                                   @ \/ \E u \in Tasks \ {t} :
                                           InFlight(u) /\ task[u].callId = c]
    /\ UNCHANGED <<live, members, hooks, tracked, ctl, emitted, pass,
                   envBudget, stable, soloDone, db, invoked, issued, rtc, auth>>
    /\ UNCHANGED <<response, takeVars, mediaVars>>

\* await this.dbService.updateCallState(callContext.call_id, 'ended')
TaskUpdateCallState(t) ==
    /\ task[t].pc = "updateCallState"
    /\ \E ok \in Outcomes :
          LET c == task[t].callId
              ts == IF ok THEN [task[t] EXCEPT !.pc = "getCallSummary"]
                    ELSE TaskCatch(task[t])
          IN  /\ Spend(ok)
              /\ task' = [task EXCEPT ![t] = ts]
              /\ Note(ts, c)
              /\ IF ok
                 THEN SetCalls(updateCallState(db.calls, c,
                                               RoomFinishedTargetState))
                 ELSE UNCHANGED db
    /\ UNCHANGED <<live, members, hooks, tracked, ctl, emitted, pass,
                   envBudget, stable, soloDone, invoked, issued, rtc, auth>>
    /\ UNCHANGED <<response, takeVars, mediaVars>>

\* const existingSummary = await this.dbService.getCallSummary(...); without
\* one the task calls this.aiService.analyzeCall(callContext.call_id)
TaskGetCallSummary(t) ==
    /\ task[t].pc = "getCallSummary"
    /\ \E ok \in Outcomes :
          LET c == task[t].callId
              skip == existingSummary(db.summaries, c)
              ts == IF ~ok THEN TaskCatch(task[t])
                    ELSE IF skip THEN TaskEnd(task[t])
                    ELSE [task[t] EXCEPT !.pc = "getCallForAnalysis",
                                         !.analyzed = TRUE]
          IN  /\ Spend(ok)
              /\ task' = [task EXCEPT ![t] = ts]
              /\ Note(ts, c)
              /\ invoked' = IF ok /\ ~skip
                            THEN [invoked EXCEPT ![c] = @ + 1]
                            ELSE invoked
    /\ UNCHANGED <<live, members, hooks, tracked, ctl, emitted, pass,
                   envBudget, stable, soloDone, db, issued, rtc, auth>>
    /\ UNCHANGED <<response, takeVars, mediaVars>>

\* const callInfo = await this.dbService.getCallForAnalysis(callId)
TaskGetCallForAnalysis(t) ==
    /\ task[t].pc = "getCallForAnalysis"
    /\ \E ok \in Outcomes :
          LET c == task[t].callId
              ts == IF ok /\ getCallForAnalysis(db.calls, c)
                    THEN [task[t] EXCEPT !.pc = "analyze"]
                    ELSE TaskCatch(task[t])
          IN  /\ Spend(ok)
              /\ task' = [task EXCEPT ![t] = ts]
              /\ Note(ts, c)
    /\ UNCHANGED <<live, members, hooks, tracked, ctl, emitted, pass,
                   envBudget, stable, soloDone, db, invoked, issued, rtc, auth>>
    /\ UNCHANGED <<response, takeVars, mediaVars>>

\* const analysis = await this.aiProvider.analyze(callInfo.transcript || '')
TaskAnalyze(t) ==
    /\ task[t].pc = "analyze"
    /\ \E ok \in Outcomes :
          LET c == task[t].callId
              ts == IF ok THEN [task[t] EXCEPT !.pc = "createCallSummary"]
                    ELSE TaskCatch(task[t])
          IN  /\ Spend(ok)
              /\ task' = [task EXCEPT ![t] = ts]
              /\ Note(ts, c)
    /\ UNCHANGED <<live, members, hooks, tracked, ctl, emitted, pass,
                   envBudget, stable, soloDone, db, invoked, issued, rtc, auth>>
    /\ UNCHANGED <<response, takeVars, mediaVars>>

\* const summary = await this.dbService.createCallSummary({...})
TaskCreateCallSummary(t) ==
    /\ task[t].pc = "createCallSummary"
    /\ \E ok \in Outcomes :
          LET c == task[t].callId
              ts == IF ok THEN [task[t] EXCEPT !.pc = "checkHealthAlerts"]
                    ELSE TaskCatch(task[t])
          IN  /\ Spend(ok)
              /\ task' = [task EXCEPT ![t] = ts]
              /\ Note(ts, c)
              /\ IF ok
                 THEN db' = [db EXCEPT
                               !.summaries = createCallSummary(@, c)]
                 ELSE UNCHANGED db
    /\ UNCHANGED <<live, members, hooks, tracked, ctl, emitted, pass,
                   envBudget, stable, soloDone, invoked, issued, rtc, auth>>
    /\ UNCHANGED <<response, takeVars, mediaVars>>

\* await this.checkHealthAlerts(...); then analyzeCall returns its result
TaskCheckHealthAlerts(t) ==
    /\ task[t].pc = "checkHealthAlerts"
    /\ \E ok \in Outcomes :
          LET c == task[t].callId
              ts == IF ok THEN TaskEnd(task[t]) ELSE TaskCatch(task[t])
          IN  /\ Spend(ok)
              /\ task' = [task EXCEPT ![t] = ts]
              /\ Note(ts, c)
    /\ UNCHANGED <<live, members, hooks, tracked, ctl, emitted, pass,
                   envBudget, stable, soloDone, db, invoked, issued, rtc, auth>>
    /\ UNCHANGED <<response, takeVars, mediaVars>>

\* the promise of the task has settled; nothing awaits it
TaskReturn(t) ==
    /\ task[t].pc = "done"
    /\ task' = [task EXCEPT ![t] = IdleTask]
    /\ UNCHANGED <<live, members, hooks, tracked, ctl, emitted, pass,
                   failBudget, envBudget, stable, soloDone, db, invoked, hist,
                   issued, rtc, auth>>
    /\ UNCHANGED <<response, takeVars, mediaVars>>

(***************************************************************************)
(* The webhook controller with the database: webhooks and token requests   *)
(* arrive in any order.                                                    *)
(***************************************************************************)
CallStates == {"ringing", "answered", "ended"}

\* a call of an earlier session may exist, in any state, not yet analysed
InitDb ==
    \E st \in CallStates \cup {"none"}, us \in {{}, {kakao_1}} :
       db = [EmptyDb EXCEPT
               !.users = us,
               !.calls = IF st = "none" THEN @
                         ELSE [@ EXCEPT !["call-1"] =
                                 [room |-> "room-a", state |-> st,
                                  callee |-> kakao_1]]]

InitCall ==
    /\ InitRouter(MaxReq, MaxFail)
    /\ InitProcess
    /\ auth = NoAuth
    /\ InitDb
    /\ tracked = {"participant_joined", "participant_left", "room_finished"}
    /\ ctl \in {"v1", "v2"}

NextCall ==
    \/ \E r \in Rooms :
          \/ Deliver("participant_joined", r, kakao_1)
          \/ Deliver("participant_left", r, kakao_1)
          \/ Deliver("room_finished", r, NoIdent)
    \/ Deliver(NoBody.event, "", NoIdent)
    \/ Deliver("", "", NoIdent)
    \/ Deliver("track_published", "room-a", kakao_1)
    \/ Deliver("participant_left", "room-a", NoIdent)
    \/ Deliver("room_finished", "", NoIdent)
    \/ \E id \in {kakao_1, admin_1}, v \in VoipTokens, a \in BOOLEAN :
          IssueToken("room-a", id, v, "host", a)
    \/ \E h \in hooks : ParticipantJoined(h)
    \/ \E h \in hooks, p \in Passes : ParticipantLeftV1(h, p)
    \/ \E h \in hooks, p \in Passes : ParticipantLeftV2(h, p)
    \/ \E h \in hooks : RoomFinishedV1(h)
    \/ \E h \in hooks, t \in Tasks : RoomFinishedV2(h, t)
    \/ \E h \in hooks : RejectWebhook(h)
    \/ \E h \in hooks : IgnoreWebhook(h)
    \/ \E p \in Passes : PassListRooms(p)
    \/ \E p \in Passes : PassStartScoped(p)
    \/ \E p \in Passes : PassListParticipants(p)
    \/ \E p \in Passes : PassDeleteEmpty(p)
    \/ \E p \in Passes : PassReturn(p)
    \/ \E t \in Tasks : TaskGetCallContext(t)
    \/ \E t \in Tasks : TaskUpdateCallState(t)
    \/ \E t \in Tasks : TaskGetCallSummary(t)
    \/ \E t \in Tasks : TaskGetCallForAnalysis(t)
    \/ \E t \in Tasks : TaskAnalyze(t)
    \/ \E t \in Tasks : TaskCreateCallSummary(t)
    \/ \E t \in Tasks : TaskCheckHealthAlerts(t)
    \/ \E t \in Tasks : TaskReturn(t)

SpecCall == InitCall /\ [][NextCall]_vars

(***************************************************************************)
(* The reaper behind either controller when no router call fails: the      *)
(* event loop runs every handler and every deferred task that is ready.    *)
(***************************************************************************)
InitLive ==
    /\ InitRouter(MaxEnv, 0)
    /\ InitProcess
    /\ auth = NoAuth
    /\ db = EmptyDb
    /\ tracked = {"participant_left"}
    /\ ctl \in {"v1", "v2"}

\* the handler of a delivered participant_left webhook
HandleParticipantLeft ==
    \E h \in hooks, p \in Passes :
       ParticipantLeftV1(h, p) \/ ParticipantLeftV2(h, p)

\* the next step of the deferred pass p
PassStep(p) ==
    \/ PassListRooms(p)
    \/ PassStartScoped(p)
    \/ PassListParticipants(p)
    \/ PassDeleteEmpty(p)
    \/ PassRemove(p)
    \/ PassRelist(p)
    \/ PassDeleteRoom(p)
    \/ PassReturn(p)

NextLive ==
    \/ \E r \in Rooms, id \in Idents : Join(r, id)
    \/ \E r \in Rooms, id \in Idents : Leave(r, id)
    \/ \E r \in Rooms : RoomTimeout(r)
    \/ HandleParticipantLeft
    \/ \E p \in Passes : PassStep(p)

SpecLive ==
    /\ InitLive
    /\ [][NextLive]_vars
    /\ WF_vars(HandleParticipantLeft)
    /\ \A p \in Passes : WF_vars(PassStep(p))

(***************************************************************************)
(* The takeover toggles with the router: one room is in use, with any of   *)
(* the participants in it, any of their tracks published and the metadata  *)
(* an earlier toggle may have left.                                        *)
(***************************************************************************)
TakeRoom == "room-a"

InitTake ==
    /\ \E ms \in SUBSET Idents :
          \E ts \in SUBSET {Track(TakeRoom, id, type) :
                              id \in ms \ {admin_1}, type \in TrackTypes} :
             /\ live = {TakeRoom}
             /\ members = [r \in Rooms |-> IF r = TakeRoom THEN ms ELSE {}]
             /\ tracks = ts
    /\ \E md \in {NoMetadata, TakeoverMetadata(TRUE)} :
          metadata = [r \in Rooms |-> IF r = TakeRoom THEN md ELSE NoMetadata]
    /\ unsub = {}
    /\ hooks = {}
    /\ emitted = NoEvent
    /\ pass = [p \in Passes |-> IdlePass]
    /\ failBudget = MaxFail
    /\ envBudget = MaxReq
    /\ stable = FALSE
    /\ soloDone = FALSE
    /\ InitProcess
    /\ auth = NoAuth
    /\ db = EmptyDb
    /\ tracked = {}
    /\ ctl = "v2"

NextTake ==
    \/ \E k \in Toggles, mute \in BOOLEAN : muteAgentInRoom(k, TakeRoom, mute)
    \/ \E k \in Toggles : MuteListParticipants(k)
    \/ \E k \in Toggles : updateAgentSubscriptions(k)
    \/ \E k \in Toggles : AgentUpdateSubscriptions(k)
    \/ \E k \in Toggles : updateIosSubscriptionsToAgent(k)
    \/ \E k \in Toggles : IosUpdateSubscriptions(k)
    \/ \E k \in Toggles : sendDataToRoom(k)
    \/ \E k \in Toggles : updateRoomMetadata(k)
    \/ \E k \in Toggles : ToggleSettled(k)
    \/ \E id \in Idents : Join(TakeRoom, id)
    \/ \E id \in Idents : Leave(TakeRoom, id)
    \/ \E id \in Idents, type \in TrackTypes : Publish(TakeRoom, id, type)

SpecTake == InitTake /\ [][NextTake]_vars

(***************************************************************************)
(* The token endpoint alone, against a database that earlier sessions have *)
(* filled: kakao_1 may own the device with the voip token and kakao_2 the  *)
(* device with the apns token.                                             *)
(***************************************************************************)
InitRtc(requests) ==
    /\ InitRouter(requests, MaxFail)
    /\ InitProcess
    /\ auth = NoAuth
    /\ \E us \in {{}, {kakao_1, kakao_2}, {admin_1, kakao_1, kakao_2}} :
          \E v \in {NoIdent, kakao_1} \cap (us \cup {NoIdent}),
             a \in {NoIdent, kakao_2} \cap (us \cup {NoIdent}) :
             db = [EmptyDb EXCEPT !.users = us,
                                  !.deviceOwner = [voip |-> v, apns |-> a]]
    /\ tracked = {}
    /\ ctl = "v2"

RtcTokenService(k) ==
    \/ TokenFindUserByDeviceToken(k)
    \/ TokenUpsertUser(k)
    \/ TokenFindUserByIdentity(k)
    \/ TokenUpsertRoomMember(k)
    \/ TokenDispatchVoiceAgent(k)
    \/ TokenCreateCall(k)
    \/ TokenUpsertDevice(k)

\* one request, of any shape.  The Authorization header: none, 'Bearer ' and
\* garbage, 'Bearer ' and a Kakao access token of the user kakao_1, 'Bearer '
\* and an API token that was issued for the identity admin_1
NextPost ==
    \/ \E k \in Reqs, bearer \in {"", "garbage", "kakao", "admin", "api"},
          authRequired \in BOOLEAN, body \in Bodies :
          RtcControllerIssueToken(k, bearer, authRequired, body)
    \/ \E k \in Reqs : RtcTokenService(k)

InitPost == InitRtc(1)

SpecPost == InitPost /\ [][NextPost]_vars

\* up to MaxReq well-formed requests of admin_1, two of them at a time, from
\* a device with a voip token or from none, authentication not being required
InitToken ==
    /\ InitRtc(MaxReq)
    /\ db.deviceOwner.apns = NoIdent

NextToken ==
    \/ \E k \in Reqs, bearer \in {"", "api"},
          body \in [roomName : {"room-a", "room-x"}, identity : {admin_1},
                    role : {"host"}, voipToken : VoipTokens,
                    apnsToken : {""}] :
          RtcControllerIssueToken(k, bearer, FALSE, body)
    \/ \E k \in Reqs : RtcTokenService(k)

SpecToken == InitToken /\ [][NextToken]_vars

(***************************************************************************)
(* AuthService.kakaoLogin and AuthService.refreshTokens for one Kakao      *)
(* account, one step per awaited database call.  The user rows are those   *)
(* with the account's kakao_id (unique), a refresh token is the pair of    *)
(* its payload <<sub, iat>>: two tokens signed for the same user within    *)
(* the same second are the same string and have the same hash.             *)
(***************************************************************************)
\* the caller sees the calls in the order it made them
FreeCall(k) ==
    /\ auth.call[k].pc = "idle"
    /\ \A j \in Reqs : j < k => auth.call[j].pc # "idle"

NewCall(kind, pc, presented, userType, guardian) ==
    [pc |-> pc, kind |-> kind, presented |-> presented,
     userType |-> userType, guardian |-> guardian, userId |-> 0,
     token |-> NoToken, status |-> NoResponse]

AuthRespond(c, status) == [c EXCEPT !.pc = "responded", !.status = status]

UserIds(a) == {u.id : u \in a.users}

\* what a step of the auth service leaves alone
AuthFrame ==
    /\ UNCHANGED <<live, members, hooks, tracked, ctl, emitted, pass,
                   failBudget, stable, soloDone>>
    /\ UNCHANGED <<db, task, invoked, hist, issued, rtc, response>>
    /\ UNCHANGED <<takeVars, mediaVars>>

\* a second passes: Date.now() / 1000, which jwt.sign puts into iat
Tick ==
    /\ envBudget > 0
    /\ envBudget' = envBudget - 1
    /\ auth' = [auth EXCEPT !.now = @ + 1]
    /\ AuthFrame

\* UserRepository.delete: one transaction that deletes the user's refresh
\* tokens, ward record and user row
UserRepositoryDelete(a, userId) ==
    [a EXCEPT !.refreshTokens = {t \in @ : t.userId # userId},
              !.wards = @ \ {userId},
              !.users = {u \in @ : u.id # userId}]

\* issueTokens up to its awaited call: both tokens are signed
issueTokens(c, userId) ==
    [c EXCEPT !.pc = "saveRefreshToken", !.userId = userId,
              !.token = <<userId, auth.now>>]

\* prisma.refreshToken.create: user_id references users, token_hash is
\* unique; then issueTokens returns, and its caller after it unless it is
\* handleWardRegistration, which looks up the guardian's user first
SaveRefreshToken(k) ==
    LET c == auth.call[k]
        row == [userId |-> c.userId, tokenHash |-> c.token]
        refused == \/ c.userId \notin UserIds(auth)
                   \/ \E t \in auth.refreshTokens : t.tokenHash = c.token
    IN
    /\ c.pc = "saveRefreshToken"
    /\ auth' = IF refused
               THEN [auth EXCEPT
                       !.call[k] = AuthRespond(c, "500 Internal server error")]
               ELSE [auth EXCEPT
                       !.refreshTokens = @ \cup {row},
                       !.call[k] = IF c.kind = "login" /\ c.userType = "ward"
                                      /\ c.guardian
                                   THEN [c EXCEPT !.pc = "findUserById"]
                                   ELSE AuthRespond(c, "200 tokens")]
    /\ UNCHANGED envBudget
    /\ AuthFrame

\* somebody calls refreshTokens(refreshToken); a string that jwt.verify
\* does not accept as a refresh token is rejected at once
refreshTokens(k, refreshToken) ==
    /\ envBudget > 0
    /\ FreeCall(k)
    /\ envBudget' = envBudget - 1
    /\ auth' = [auth EXCEPT
                  !.call[k] =
                     IF refreshToken = NoToken
                     THEN AuthRespond(NewCall("refresh", "", refreshToken,
                                              "", FALSE),
                                      "401 Unauthorized")
                     ELSE NewCall("refresh", "findRefreshToken",
                                  refreshToken, "", FALSE)]
    /\ AuthFrame

\* refreshTokens from findRefreshToken to the call of issueTokens
RefreshStep(k) ==
    LET c == auth.call[k]
        sub == c.presented[1]
    IN
    /\ c.pc \in {"findRefreshToken", "findUserById", "deleteRefreshToken"}
    /\ c.kind = "refresh"
    /\ auth' =
          CASE c.pc = "findRefreshToken" ->
                 [auth EXCEPT
                    !.call[k] =
                       IF \E t \in auth.refreshTokens :
                             t.tokenHash = c.presented
                       THEN [c EXCEPT !.pc = "findUserById"]
                       ELSE AuthRespond(c, "401 Unauthorized")]
            [] c.pc = "findUserById" ->
                 [auth EXCEPT
                    !.call[k] =
                       IF sub \in UserIds(auth)
                       THEN [c EXCEPT !.pc = "deleteRefreshToken"]
                       ELSE AuthRespond(c, "401 Unauthorized")]
            [] c.pc = "deleteRefreshToken" ->
                 [auth EXCEPT
                    !.refreshTokens = {t \in @ : t.tokenHash # c.presented},
                    !.call[k] = issueTokens(c, sub)]
    /\ UNCHANGED envBudget
    /\ AuthFrame

\* somebody calls kakaoLogin with a valid Kakao access token of the account;
\* guardian: a guardian has registered the account's email as a ward's
kakaoLogin(k, userType) ==
    /\ envBudget > 0
    /\ FreeCall(k)
    /\ envBudget' = envBudget - 1
    /\ auth' = [auth EXCEPT
                  !.call[k] = NewCall("login", "findUserByKakaoId", NoToken,
                                      userType, auth.guardian)]
    /\ AuthFrame

\* handleWardRegistration up to createUserWithKakao: the lookups of the
\* guardian and of the organization ward; no organization is modelled
handleWardRegistration(c) ==
    IF c.guardian THEN [c EXCEPT !.pc = "createUserWithKakao"]
    ELSE AuthRespond(c, "401 Unauthorized")

\* kakaoLogin and handleWardRegistration, from findUserByKakaoId to the
\* call of issueTokens, and the lookup after it
LoginStep(k) ==
    LET c == auth.call[k]
        existing == auth.users
        fresh == [id |-> auth.nextId,
                  user_type |-> IF c.userType = "ward" THEN "ward"
                                ELSE "null"]
    IN
    /\ c.pc \notin {"idle", "saveRefreshToken", "responded"}
    /\ c.kind = "login"
    /\ auth' =
          CASE c.pc = "findUserByKakaoId" ->
                 [auth EXCEPT
                    !.call[k] =
                       IF existing # {}
                       THEN LET u == CHOOSE u \in existing : TRUE IN
                            IF u.user_type = "ward"
                            THEN [c EXCEPT !.pc = "findWardByUserId",
                                           !.userId = u.id]
                            ELSE issueTokens(c, u.id)
                       ELSE IF c.userType = "ward"
                       THEN [c EXCEPT !.pc = "findGuardianByWardEmail"]
                       ELSE [c EXCEPT !.pc = "findUserByEmail"]]
            [] c.pc = "findWardByUserId" ->
                 [auth EXCEPT
                    !.call[k] = IF c.userId \in auth.wards
                                THEN issueTokens(c, c.userId)
                                ELSE [c EXCEPT !.pc = "deleteUser"]]
            [] c.pc = "deleteUser" ->
                 \* tx.user.delete fails for a row that is gone
                 IF c.userId \notin UserIds(auth)
                 THEN [auth EXCEPT
                         !.call[k] =
                            AuthRespond(c, "500 Internal server error")]
                 ELSE [UserRepositoryDelete(auth, c.userId) EXCEPT
                         !.call[k] =
                            IF c.userType = "ward"
                            THEN [c EXCEPT !.pc = "findGuardianByWardEmail"]
                            ELSE issueTokens(c, c.userId)]
            [] c.pc = "findGuardianByWardEmail" ->
                 [auth EXCEPT !.call[k] = handleWardRegistration(c)]
            [] c.pc = "findUserByEmail" ->
                 \* the guardian's checks: the email is a ward user's, or a
                 \* guardian registered it as a ward's
                 [auth EXCEPT
                    !.call[k] =
                       IF \/ \E u \in existing : u.user_type = "ward"
                          \/ c.guardian
                       THEN AuthRespond(c, "401 Unauthorized")
                       ELSE [c EXCEPT !.pc = "createUserWithKakao"]]
            [] c.pc = "createUserWithKakao" ->
                 \* users.kakao_id is unique
                 IF existing # {}
                 THEN [auth EXCEPT
                         !.call[k] =
                            AuthRespond(c, "500 Internal server error")]
                 ELSE [auth EXCEPT
                         !.users = {fresh},
                         !.nextId = @ + 1,
                         !.call[k] =
                            IF c.userType = "ward"
                            THEN [c EXCEPT !.pc = "createWard",
                                           !.userId = fresh.id]
                            ELSE issueTokens(c, fresh.id)]
            [] c.pc = "createWard" ->
                 \* wards.user_id references users
                 IF c.userId \notin UserIds(auth)
                 THEN [auth EXCEPT
                         !.call[k] =
                            AuthRespond(c, "500 Internal server error")]
                 ELSE [auth EXCEPT
                         !.wards = @ \cup {c.userId},
                         !.call[k] = issueTokens(c, c.userId)]
            [] c.pc = "findUserById" ->
                 [auth EXCEPT !.call[k] = AuthRespond(c, "200 tokens")]
    /\ UNCHANGED envBudget
    /\ AuthFrame

\* the account has no user row, or the row of a login of the second before
\* with its refresh token: an incomplete ward user, a ward or a guardian;
\* a guardian may have registered the account's email as a ward's
InitAuth ==
    /\ InitRouter(MaxEnv, MaxFail)
    /\ InitProcess
    /\ db = EmptyDb
    /\ tracked = {}
    /\ ctl = "v2"
    /\ \E shape \in {"new", "incomplete", "ward", "guardian"},
          guardian \in BOOLEAN :
          auth = IF shape = "new" THEN [NoAuth EXCEPT !.guardian = guardian]
                 ELSE [NoAuth EXCEPT
                         !.guardian = guardian,
                         !.users = {[id |-> 1,
                                     user_type |-> IF shape = "guardian"
                                                   THEN "guardian"
                                                   ELSE "ward"]},
                         !.wards = IF shape = "ward" THEN {1} ELSE {},
                         !.refreshTokens = {[userId |-> 1,
                                             tokenHash |-> <<1, 0>>]},
                         !.now = 1,
                         !.nextId = 2]

NextAuth ==
    \/ Tick
    \/ \E k \in Reqs, refreshToken \in {NoToken, <<1, 0>>} :
          refreshTokens(k, refreshToken)
    \/ \E k \in Reqs : RefreshStep(k)
    \/ \E k \in Reqs, userType \in {"ward", "guardian"} :
          kakaoLogin(k, userType)
    \/ \E k \in Reqs : LoginStep(k)
    \/ \E k \in Reqs : SaveRefreshToken(k)

SpecAuth == InitAuth /\ [][NextAuth]_vars

(***************************************************************************)
(* Properties.                                                             *)
(***************************************************************************)
\* pass p makes its next router call in this step
Stepped(p) ==
    \/ pass'[p].pc # pass[p].pc
    \/ pass'[p].i # pass[p].i
    \/ pass'[p].called # pass[p].called

\* the router call pass p makes in this step fails
CallFails(p) == pass'[p].failed # pass[p].failed

Deleted(r) == r \in live /\ r \notin live'

\* C1: a reap pass never deletes a room while a real user (an identity with
\* neither the admin_ nor the agent- prefix) is in it, however a join
\* interleaves with the pass's list, remove, re-list and delete calls.
C1_NoRoomWithRealUserDeleted ==
    [][\A p \in Passes :
          (pass[p].pc = "deleteRoom" /\ Stepped(p) /\ Deleted(Room(pass[p])))
          => ~hasRealUsers(members[Room(pass[p])])]_vars

C3_SummaryPresentNoAnalysis ==
    /\ [][\A c \in CallIds :
            db.summaries[c] > 0 => invoked'[c] = invoked[c]]_vars
    /\ [](\A t \in Tasks :
            task[t].hadSummary
            => /\ ~task[t].analyzed
               /\ (task[t].pc = "getCallSummary"
                     \/ (task[t].pc = "done" /\ ~task[t].failed))
                  => db.calls[task[t].callId].state = "ended")

\* a task that found the summary of the first handling has ended: the call is
\* ended and was analysed once
C3_Witness ==
    \E t \in Tasks :
       /\ task[t].pc = "done"
       /\ task[t].hadSummary
       /\ ~task[t].failed
       /\ invoked[task[t].callId] = 1
       /\ db.calls[task[t].callId].state = "ended"

CallTransitions ==
    {<<"none", "ringing">>, <<"ringing", "answered">>,
     <<"ringing", "ended">>, <<"answered", "ended">>}

\* C4: the state of a call changes only along ringing -> answered -> ended
\* or ringing -> ended (a call that is created starts as ringing), an ended
\* call keeps its state, and the state of an existing call is changed by
\* nothing but the updateCallState step of a room_finished task: not by a
\* participant_joined or participant_left webhook, not by a token request.
C4_CallStateMachine ==
    [][\A c \in CallIds :
          LET a == db.calls[c].state
              b == db'.calls[c].state
          IN  a # b
              => /\ <<a, b>> \in CallTransitions
                 /\ a # "none"
                    => \E t \in Tasks :
                          /\ task[t].pc = "updateCallState"
                          /\ task[t].callId = c
                          /\ task'[t].pc = "getCallSummary"]_vars

\* a call was ended by a room_finished task, and a participant webhook or a
\* token request was handled after it
C4_Witness ==
    \E c \in CallIds :
       /\ db.calls[c].state = "ended"
       /\ hist.handled[c]
       /\ envBudget = 0
       /\ emitted.type \in {"participant-joined", "participant-left",
                            "room-created"}

\* C5: a room whose listing is not empty and shows only admin_ and agent-
\* identities gets a removeParticipant call for every listed participant
\* before the re-list; after the re-list the pass calls deleteRoom exactly
\* when the re-list shows no real user, and the room ends when the router
\* carries that call out; when the re-list shows a real user the pass
\* leaves the room standing and goes to the next room.
C5_ListingStep(p) ==
    LET r == Room(pass[p])
        got == RouterParticipants(r)
    IN  (/\ pass[p].pc = "listParticipants"
         /\ Stepped(p)
         /\ ~CallFails(p)
         /\ got # {}
         /\ \A q \in got : ~isRealUser(q))
        => /\ pass'[p].pc = "remove"
           /\ pass'[p].participants = got
           /\ pass'[p].todo = got
           /\ pass'[p].called = {}

C5_RemoveStep(p) ==
    LET r == Room(pass[p]) IN
    (pass[p].pc = "remove" /\ Stepped(p))
    => \E id \in pass[p].todo :
          /\ pass'[p].called = pass[p].called \cup {id}
          /\ pass'[p].todo = pass[p].todo \ {id}
          /\ ~CallFails(p) => id \notin members'[r]
          /\ pass'[p].pc = IF pass'[p].todo = {} THEN "relist" ELSE "remove"

C5_RelistStep(p) ==
    LET r == Room(pass[p])
        got == RouterParticipants(r)
    IN  (pass[p].pc = "relist" /\ Stepped(p) /\ ~CallFails(p))
        => /\ pass[p].called = pass[p].participants
           /\ IF hasRealUsers(got)
              THEN /\ pass'[p].pc \in {"listParticipants", "done"}
                   /\ pass'[p].i = pass[p].i + 1 \/ pass'[p].pc = "done"
                   /\ ~Deleted(r)
              ELSE /\ pass'[p].pc = "deleteRoom"
                   /\ pass'[p].i = pass[p].i

C5_DeleteStep(p) ==
    LET r == Room(pass[p]) IN
    (pass[p].pc = "deleteRoom" /\ Stepped(p))
    => /\ pass[p].called = pass[p].participants
       /\ ~hasRealUsers(pass[p].updatedParticipants)
       /\ ~CallFails(p) => r \notin live'

C5_AdminOnlyRoomReaped ==
    [][\A p \in Passes : /\ C5_ListingStep(p)
                         /\ C5_RemoveStep(p)
                         /\ C5_RelistStep(p)
                         /\ C5_DeleteStep(p)]_vars

\* a pass is about to delete a room it has removed the operator and the agent
\* from, the re-list having shown nobody
C5_Witness ==
    \E p \in Passes :
       /\ pass[p].pc = "deleteRoom"
       /\ pass[p].participants = {admin_1, agent_1}
       /\ pass[p].called = {admin_1, agent_1}
       /\ pass[p].removedCount = 2
       /\ Room(pass[p]) \in live

\* C6: for a live room whose listing is empty the pass's next router call is
\* deleteRoom for that room, and the room no longer exists once the router
\* has carried the call out.
C6_EmptyRoomDeleted ==
    [][\A p \in Passes :
          LET r == Room(pass[p]) IN
          /\ (/\ pass[p].pc = "listParticipants"
              /\ Stepped(p)
              /\ ~CallFails(p)
              /\ r \in live
              /\ members[r] = {})
             => /\ pass'[p].pc = "deleteEmpty"
                /\ Room(pass'[p]) = r
          /\ (pass[p].pc = "deleteEmpty" /\ Stepped(p))
             => /\ pass'[p].acted
                /\ ~CallFails(p) => r \notin live']_vars

\* a pass has listed a live room without participants and is deleting it
C6_Witness ==
    \E p \in Passes :
       /\ pass[p].pc = "deleteEmpty"
       /\ Room(pass[p]) \in live
       /\ members[Room(pass[p])] = {}

RemovalOrDeletion == {"removeParticipant", "deleteRoom"}

PassPcs ==
    {"idle", "scheduled", "listParticipants", "deleteEmpty", "remove",
     "relist", "deleteRoom", "done"}

\* every pass is at an await of closeAdminOnlyRooms or has returned, none
\* has ended with an error raised to its caller, and each pass that has not
\* returned can take its next step
PassesComplete ==
    \A p \in Passes :
       /\ pass[p].pc \in PassPcs
       /\ pass[p].pc # "idle" => ENABLED PassStep(p)

C8_FailureStep(p) ==
    (Stepped(p) /\ CallFails(p)
       /\ pass[p].pc \in {"remove", "deleteEmpty", "deleteRoom"})
    => /\ ~pass'[p].aborted
       /\ pass[p].pc = "remove" => pass'[p].pc \in {"remove", "relist"}
       /\ pass[p].pc # "remove" =>
             IF pass[p].i < Len(pass[p].rooms)
             THEN /\ pass'[p].pc = "listParticipants"
                  /\ pass'[p].i = pass[p].i + 1
                  /\ pass'[p].rooms = pass[p].rooms
             ELSE pass'[p].pc = "done" /\ pass'[p].unexamined = 0

C8_RemoveDeleteFailureDoesNotAbort ==
    /\ [][\A p \in Passes : C8_FailureStep(p)]_vars
    /\ [](\A p \in Passes :
            /\ pass[p].aborted =>
                  \E f \in pass[p].failed : f[1] \notin RemovalOrDeletion
            /\ (pass[p].pc = "done" /\ ~pass[p].aborted) =>
                  pass[p].unexamined = 0)

\* a call failed for the first listed room and the pass is reaping the second
C8_Witness ==
    \E p \in Passes :
       /\ pass[p].i = 2
       /\ pass[p].pc \in {"deleteEmpty", "remove", "deleteRoom"}
       /\ \E f \in pass[p].failed : f[1] \in RemovalOrDeletion /\ f[2] = 1

\* C9: whatever router call fails while a room is processed, every other
\* listed room is still examined.
C9_EveryListedRoomExamined ==
    \A p \in Passes : pass[p].pc = "done" => pass[p].unexamined = 0

\* the participant_left webhook of a real user of room r is delivered and no
\* real user is in the room
LastRealUserLeft(r) ==
    /\ r \in live
    /\ ~hasRealUsers(members[r])
    /\ \E h \in hooks : /\ h.event = "participant_left"
                        /\ h.room = r
                        /\ isRealUser(h.identity)

\* C10: when the last real user of a room has left and the participant_left
\* webhook for it is delivered, then, no router call failing and the handler
\* and the deferred passes being run, the room is eventually deleted with
\* whoever of the operators and agents is in it, unless a real user joins it
\* again.
C10_DeadRoomEventuallyReaped ==
    \A r \in Rooms :
       LastRealUserLeft(r) ~> (r \notin live \/ hasRealUsers(members[r]))

\* the real user has left a room in which the operator and the agent remain,
\* and the webhook is delivered
C10_Witness ==
    \E r \in Rooms :
       /\ LastRealUserLeft(r)
       /\ members[r] = {admin_1, agent_1}

(***************************************************************************)
(* C11: a participant_left webhook that carries a room and a participant   *)
(* emits the 'participant-left' event with that room name and identity     *)
(* and leaves one new reap pass, covering that room, as a callback that    *)
(* has not started: the step that answers the webhook makes no router      *)
(* call, changes nothing in the router and moves no other pass.            *)
(***************************************************************************)
C11_HandlerStep(h) ==
    /\ emitted' = RoomEvent("participant-left", h.room, h.identity)
    /\ response' = Success
    /\ \E p \in Passes :
          /\ pass[p].pc = "idle"
          /\ pass'[p].pc = "scheduled"
          /\ pass'[p].scope \in {"all", h.room}
          /\ ~pass'[p].acted
          /\ pass'[p].rooms = <<>>
          /\ \A q \in Passes \ {p} : pass'[q] = pass[q]
    /\ UNCHANGED <<live, members, failBudget, mediaVars>>

C11_ParticipantLeftDefersPass ==
    [][\A h \in hooks :
          (/\ h.event = "participant_left"
           /\ hasParticipantAndRoom(h)
           /\ h \notin hooks')
          => C11_HandlerStep(h)]_vars

\* the webhook is answered and its pass has not started
C11_Witness ==
    /\ ctl = "v2"
    /\ hooks = {}
    /\ response = Success
    /\ emitted = RoomEvent("participant-left", "room-a", kakao_1)
    /\ \E p \in Passes : pass[p].pc = "scheduled" /\ pass[p].scope = "room-a"

(***************************************************************************)
(* C12: a room_finished webhook for a room with no matching call record    *)
(* emits the lifecycle event and nothing more: the handler step touches    *)
(* neither the database nor the analysis provider, and the deferred task,  *)
(* whose lookup finds no call (or fails), ends at once without a           *)
(* call-state update and without invoking the analysis.                    *)
(***************************************************************************)
C12_HandlerStep(h) ==
    /\ emitted' = RoomEvent("room-updated", h.room, NoIdent)
    /\ UNCHANGED <<db, invoked>>

C12_LookupStep(t) ==
    /\ task'[t].pc = "done"
    /\ task'[t].callId = NoCallId
    /\ ~task'[t].analyzed
    /\ UNCHANGED <<db, invoked, emitted>>

C12_RoomFinishedWithoutCall ==
    [][/\ \A h \in hooks :
             (h.event = "room_finished" /\ h.room # "" /\ h \notin hooks')
             => C12_HandlerStep(h)
       /\ \A t \in Tasks :
             (/\ task[t].pc = "scheduled"
              /\ task'[t] # task[t]
              /\ getCallContextByRoomName(db.calls, task[t].room) = NoCallId)
             => C12_LookupStep(t)]_vars

\* the task of a room without a call has ended, no call of it having failed
C12_Witness ==
    /\ ctl = "v2"
    /\ emitted = RoomEvent("room-updated", "room-b", NoIdent)
    /\ \E t \in Tasks :
          /\ task[t].pc = "done"
          /\ task[t].room = "room-b"
          /\ task[t].callId = NoCallId
          /\ ~task[t].failed
    /\ \A c \in CallIds : db.calls[c].room # "room-b" /\ invoked[c] = 0

(***************************************************************************)
(* C13: a participant_joined webhook emits the 'participant-joined' event  *)
(* for its room and identity; the step leaves every call's state, the      *)
(* reap passes, the analysis tasks and the analysis invocations as they    *)
(* were.                                                                   *)
(***************************************************************************)
C13_ParticipantJoinedOnlyEmits ==
    [][\A h \in hooks :
          (/\ h.event = "participant_joined"
           /\ hasParticipantAndRoom(h)
           /\ h \notin hooks')
          => /\ emitted' = RoomEvent("participant-joined", h.room, h.identity)
             /\ response' = Success
             /\ UNCHANGED <<db, pass, task, invoked>>]_vars

\* the join was reported for the room of a call that is still ringing
C13_Witness ==
    /\ hooks = {}
    /\ response = Success
    /\ emitted = RoomEvent("participant-joined", "room-a", kakao_1)
    /\ \E c \in CallIds :
          db.calls[c].room = "room-a" /\ db.calls[c].state = "ringing"
    /\ \A p \in Passes : pass[p].pc = "idle"
    /\ \A t \in Tasks : task[t].pc = "idle"

(***************************************************************************)
(* C14: every webhook that has a body is answered { success: true } by a   *)
(* step that awaits nothing: it makes no router or database call and       *)
(* moves no pass or task that is under way, whatever call those are        *)
(* stopped at.  No step of a deferred pass or task changes the response,   *)
(* and a step whose call fails leaves the task ended and the pass in its   *)
(* loop or ended: nothing is raised.                                       *)
(***************************************************************************)
C14_HandlerStep ==
    \A h \in hooks :
       (h # NoBody /\ h \notin hooks')
       => /\ response' = Success
          /\ \A p \in Passes : Running(p) => pass'[p] = pass[p]
          /\ \A t \in Tasks : InFlight(t) => task'[t] = task[t]
          /\ UNCHANGED <<live, members, db, invoked, failBudget>>

C14_DeferredStep ==
    (hooks' = hooks /\ (pass' # pass \/ task' # task))
    => /\ response' = response
       /\ \A t \in Tasks :
             (task'[t] # task[t] /\ failBudget' < failBudget)
             => task'[t].pc = "done" /\ task'[t].failed
       /\ \A p \in Passes :
             (pass'[p] # pass[p] /\ failBudget' < failBudget)
             => pass'[p].pc \in PassPcs

C14_AnsweredWithoutWaiting == [][C14_HandlerStep /\ C14_DeferredStep]_vars

\* a webhook was answered while one analysis task was stopped at a call
\* and another had ended in a failed call
C14_Witness ==
    /\ hooks = {}
    /\ response = Success
    /\ \E t, u \in Tasks :
          /\ InFlight(t)
          /\ task[u].pc = "done" /\ task[u].failed

(***************************************************************************)
(* C15, as stated: a payload that is not an event envelope (no body, or    *)
(* no event field) is answered 400 and has no effect; every other payload  *)
(* is answered { success: true }.                                          *)
(***************************************************************************)
C15_NoEffect == UNCHANGED <<emitted, pass, task, db, invoked, failBudget>>

C16_ListingStep(k) ==
    /\ toggle'[k].pc = "returned"
    /\ toggle'[k].tried = {}
    /\ toggle'[k].failed = {}
    /\ UNCHANGED <<unsub, metadata, sent>>

C16_NoAgentsNoCalls ==
    [][\A k \in Toggles :
          (/\ toggle[k].pc = "listParticipants"
           /\ toggle'[k].pc # "listParticipants"
           /\ failBudget' = failBudget
           /\ agentsOf(RouterParticipants(toggle[k].room)) = {})
          => C16_ListingStep(k)]_vars

\* a toggle has returned from a room in which a real user publishes audio
\* and no agent is connected
C16_Witness ==
    \E k \in Toggles :
       /\ toggle[k].pc = "returned"
       /\ toggle[k].agents = {}
       /\ toggle[k].mute
       /\ kakao_1 \in members[TakeRoom]
       /\ agent_1 \notin members[TakeRoom]
       /\ Track(TakeRoom, kakao_1, AUDIO) \in tracks
       /\ unsub = {}

\* toggle k has ended, by return or by throw
Ended(k) == toggle[k].pc \in {"returned", "threw"}

(***************************************************************************)
(* C17: in a toggle that found agents, a failure in subscription control   *)
(* does not keep the data message and the metadata write from being        *)
(* attempted, and a failure of the data message does not keep the          *)
(* metadata write from being attempted.                                    *)
(***************************************************************************)
C17_ChannelsFailIndependently ==
    \A k \in Toggles :
       (Ended(k) /\ toggle[k].agents # {})
       => /\ "subscriptions" \in toggle[k].failed
             => {"data", "metadata"} \subseteq toggle[k].tried
          /\ "data" \in toggle[k].failed => "metadata" \in toggle[k].tried

(***************************************************************************)
(* C18: no failure of a signaling channel, or of the participant listing,  *)
(* reaches the caller of the toggle: no toggle ends by throwing.           *)
(***************************************************************************)
C18_FailureNeverPropagated == \A k \in Toggles : toggle[k].pc # "threw"

\* what a party that polls the room reads as the takeover state: metadata
\* without the flag reads as no takeover
TakeoverFlag(md) == md = TakeoverMetadata(TRUE)

(***************************************************************************)
(* C19: whenever a toggle completes, the takeover flag of the room         *)
(* metadata equals that toggle's mute value, so that after any sequence    *)
(* of completed toggles the metadata shows the most recent one.            *)
(***************************************************************************)
C19_MetadataShowsLastToggle ==
    [][\A k \in Toggles :
          (toggle[k].pc # "returned" /\ toggle'[k].pc = "returned")
          => TakeoverFlag(metadata'[toggle[k].room]) = toggle[k].mute]_vars

\* the pairs <<agent, audio track of a real user>> and <<real user, audio
\* track of an agent>> of room r
TakeoverPairs(r) ==
    LET real == {q \in members[r] : isRealUser(q)}
        agents == {q \in members[r] : startsWith(q, AgentPrefix)}
        audioOf(owners) == {t \in tracks : /\ t.room = r
                                           /\ t.owner \in owners
                                           /\ t.type = AUDIO}
    IN  (agents \X audioOf(real)) \cup (real \X audioOf(agents))

\* the subscriptions of room r are as a toggle with this mute value wants
Routed(r, mute) ==
    IF mute THEN TakeoverPairs(r) \subseteq unsub
    ELSE TakeoverPairs(r) \cap unsub = {}

\* toggle k returns in this step, no call of it having failed
C20_Completes(k) ==
    /\ toggle[k].pc # "returned"
    /\ toggle'[k].pc = "returned"
    /\ toggle'[k].failed = {}

(***************************************************************************)
(* C20, as stated: when a toggle returns without a failed router call,     *)
(* every agent in the room is unsubscribed from every audio track of every *)
(* real user and every real user from every agent audio track (mute =      *)
(* true), or all these subscriptions are in place (mute = false).          *)
(***************************************************************************)
C20_SubscriptionsRouted ==
    [][\A k \in Toggles :
          C20_Completes(k) => Routed(toggle[k].room, toggle[k].mute)']_vars

(***************************************************************************)
(* C20, amended: the same, for a toggle during which nobody joined, left   *)
(* or published in the room and no other toggle changed a subscription.    *)
(***************************************************************************)
C20_SubscriptionsRoutedUndisturbed ==
    [][\A k \in Toggles :
          (C20_Completes(k) /\ ~toggle'[k].disturbed)
          => Routed(toggle[k].room, toggle[k].mute)']_vars

\* an undisturbed toggle with mute = true has returned; the agent and the
\* real user, both publishing audio, no longer hear each other
C20_Witness ==
    \E k \in Toggles :
       /\ toggle[k].pc = "returned"
       /\ toggle[k].mute
       /\ toggle[k].failed = {}
       /\ ~toggle[k].disturbed
       /\ <<agent_1, Track(TakeRoom, kakao_1, AUDIO)>> \in unsub
       /\ <<kakao_1, Track(TakeRoom, agent_1, AUDIO)>> \in unsub

\* toggle k makes one of its router calls in this step
C21_ToggleActs(k) ==
    /\ toggle[k].pc # "idle"
    /\ toggle'[k].pc # "idle"
    /\ \/ toggle'[k].pc # toggle[k].pc
       \/ toggle'[k].todo # toggle[k].todo
       \/ toggle'[k].tried # toggle[k].tried
       \/ toggle'[k].failed # toggle[k].failed

\* the subscriptions this step switches on or off
C21_Changed == (unsub \ unsub') \cup (unsub' \ unsub)

\* a subscription the protocol lists: an agent's to an audio track of a real
\* user, or a real user's to an audio track of an agent
C21_Listed(pair) ==
    LET subscriber == pair[1]
        track == pair[2]
    IN  /\ track.type = AUDIO
        /\ \/ /\ startsWith(subscriber, AgentPrefix)
              /\ isRealUser(track.owner)
           \/ /\ isRealUser(subscriber)
              /\ startsWith(track.owner, AgentPrefix)

(***************************************************************************)
(* C21: a step of a takeover toggle removes no participant and deletes no  *)
(* room, and every subscription it changes is one the protocol lists: no   *)
(* subscription of an 'admin_' participant, and no subscription to a track *)
(* of an operator or of a real user other than an agent's subscription to  *)
(* a real user's audio track.                                              *)
(***************************************************************************)
C21_ToggleFrame ==
    [][(\E k \in Toggles : C21_ToggleActs(k))
       => /\ live' = live
          /\ members' = members
          /\ \A pair \in C21_Changed :
                /\ ~startsWith(pair[1], AdminPrefix)
                /\ C21_Listed(pair)]_vars

\* a toggle has returned in a room that holds an operator, a real user and
\* an agent; the agent's subscription to the real user's audio was changed
\* and everybody is still in the room
C21_Witness ==
    \E k \in Toggles :
       /\ toggle[k].pc = "returned"
       /\ toggle[k].mute
       /\ {admin_1, agent_1, kakao_1} \subseteq members[TakeRoom]
       /\ TakeRoom \in live
       /\ <<agent_1, Track(TakeRoom, kakao_1, AUDIO)>> \in unsub

\* request k is answered in this step, with the token
C22_Issued(k) ==
    /\ rtc[k].pc \notin {"idle", "responded"}
    /\ rtc'[k].pc = "responded"
    /\ rtc'[k].status = "201 token"

(***************************************************************************)
(* C22: a request that carries a voipToken, the device with that token     *)
(* belonging to the existing user U, is answered with U's identity (the    *)
(* identity of the result and of the token's grant), whatever identity the *)
(* body or the credential supplied.                                        *)
(***************************************************************************)
C22_VoipOwnerIsIdentity ==
    [][\A k \in Reqs :
          (/\ C22_Issued(k)
           /\ rtc[k].req.body.voipToken # ""
           /\ db.deviceOwner.voip # NoIdent)
          => /\ db.deviceOwner.voip \in db.users
             /\ rtc'[k].identity = db.deviceOwner.voip]_vars

\* a request that supplied the identity admin_1 with the voip token of
\* kakao_1's device has been answered with kakao_1's identity
C22_Witness ==
    \E k \in Reqs :
       /\ rtc[k].pc = "responded"
       /\ rtc[k].status = "201 token"
       /\ rtc[k].req.body.voipToken # ""
       /\ rtc[k].req.body.identity = admin_1
       /\ rtc[k].identity = kakao_1
       /\ db.deviceOwner.voip = kakao_1

\* the identity the controller passes to the service: the credential's, or
\* else the body's
C23_Supplied(req) ==
    IF req.bearer \in {"admin", "api"} THEN admin_1
    ELSE IF req.bearer = "kakao" /\ kakao_1 \in db.users THEN kakao_1
    ELSE req.body.identity

(***************************************************************************)
(* C23: the identity a token is issued for is the owner of the device with *)
(* the request's voipToken if there is one; otherwise the owner of the     *)
(* device with its apnsToken if there is one; otherwise the identity that  *)
(* was supplied.  With both tokens matching different users it is the voip *)
(* user's.                                                                 *)
(***************************************************************************)
C23_ResolutionOrder ==
    [][\A k \in Reqs :
          C22_Issued(k)
          => LET body == rtc[k].req.body
                 voipUser == IF body.voipToken # "" THEN db.deviceOwner.voip
                             ELSE NoIdent
                 apnsUser == IF body.apnsToken # "" THEN db.deviceOwner.apns
                             ELSE NoIdent
             IN  rtc'[k].identity =
                    IF voipUser # NoIdent THEN voipUser
                    ELSE IF apnsUser # NoIdent THEN apnsUser
                    ELSE C23_Supplied(rtc[k].req)]_vars

\* a request with both tokens, the voip token being kakao_1's and the apns
\* token kakao_2's, has resolved its identity to kakao_1; admin_1 was supplied
C23_Witness ==
    \E k \in Reqs :
       /\ rtc[k].pc = "upsertDevice"
       /\ rtc[k].req.body.voipToken # ""
       /\ rtc[k].req.body.apnsToken # ""
       /\ db.deviceOwner = [voip |-> kakao_1, apns |-> kakao_2]
       /\ rtc[k].req.body.identity = admin_1
       /\ rtc[k].identity = kakao_1

(***************************************************************************)
(* C24: a device-initiated request (voipToken or apnsToken present) is     *)
(* answered with a room name that is not the one it supplied, that no      *)
(* earlier device-initiated request was answered with and that no request  *)
(* under way at the same time holds.                                       *)
(***************************************************************************)
C24_FreshRoomName ==
    [][\A k \in Reqs :
          (C22_Issued(k) /\ isIosUser(rtc[k]))
          => /\ rtc'[k].roomName # rtc[k].req.body.roomName
             /\ rtc'[k].roomName \notin hist.returned
             /\ \A j \in Reqs \ {k} :
                   (rtc[j].pc # "idle" /\ isIosUser(rtc[j]))
                   => rtc[j].roomName # rtc'[k].roomName]_vars

\* two device-initiated requests were under way together, the first of them
\* having supplied 'room-a'; it has been answered, with another room name
\* than the second holds
C24_Witness ==
    /\ rtc[1].pc = "responded"
    /\ rtc[1].status = "201 token"
    /\ isIosUser(rtc[1])
    /\ rtc[1].req.body.roomName = "room-a"
    /\ rtc[1].roomName = "room-b"
    /\ rtc[2].pc = "upsertDevice"
    /\ isIosUser(rtc[2])
    /\ rtc[2].roomName = "room-a"

(***************************************************************************)
(* C25: no two Call records have the same room name.                       *)
(***************************************************************************)
C25_OneCallPerRoom ==
    \A c1, c2 \in CallIds :
       (/\ c1 # c2
        /\ db.calls[c1].state # "none"
        /\ db.calls[c2].state # "none")
       => db.calls[c1].room # db.calls[c2].room

\* two requests that were under way together have each created a Call
C25_Witness ==
    /\ \A c \in CallIds : db.calls[c].state # "none"
    /\ \A k \in Reqs : rtc[k].pc = "upsertDevice" /\ rtc[k].callId # NoCallId

\* the request in slot k carries neither an apnsToken nor a voipToken
C26_NoDevice(r) ==
    /\ r.req.body.voipToken = ""
    /\ r.req.body.apnsToken = ""

(***************************************************************************)
(* C26: a request with neither apnsToken nor voipToken is, at every step,  *)
(* without effect on the room members, the lifecycle events, the agent     *)
(* dispatch, the Call records and the devices, and the token it gets is    *)
(* for the room name it supplied.                                          *)
(***************************************************************************)
C26_OperatorJoinOnly ==
    [][\A k \in Reqs :
          (rtc'[k] # rtc[k] /\ C26_NoDevice(rtc'[k]))
          => /\ db'.roomMembers = db.roomMembers
             /\ db'.calls = db.calls
             /\ db'.deviceOwner = db.deviceOwner
             /\ emitted' = emitted
             /\ rtc'[k].agent = "none"
             /\ rtc'[k].callId = NoCallId
             /\ (rtc'[k].status = "201 token"
                 => rtc'[k].roomName = rtc'[k].req.body.roomName)]_vars

\* a request without tokens has its token, for the room it named; no room
\* member, event or call exists
C26_Witness ==
    \E k \in Reqs :
       /\ rtc[k].pc = "responded"
       /\ rtc[k].status = "201 token"
       /\ C26_NoDevice(rtc[k])
       /\ rtc[k].roomName = "room-a"
       /\ db.roomMembers = {}
       /\ emitted = NoEvent
       /\ \A c \in CallIds : db.calls[c].state = "none"

(***************************************************************************)
(* C27: a request without an authenticated identity whose resolved         *)
(* identity has no user record is answered with 401 Unauthorized.          *)
(***************************************************************************)
C27_UnknownIdentityUnauthorized ==
    [][\A k \in Reqs :
          (/\ rtc[k].pc = "findUserByIdentity"
           /\ ~rtc[k].isAuthenticated
           /\ rtc[k].identity \notin db.users
           /\ failBudget' = failBudget
           /\ rtc'[k].pc = "responded")
          => rtc'[k].status = "401 Unauthorized"]_vars

(***************************************************************************)
(* C28: the end of the agent dispatch and the end of the Call creation,    *)
(* failed or not, never end a request: it goes on to the next call.  The   *)
(* token a device-initiated request gets names a Call exactly when one was *)
(* created for its room.                                                   *)
(***************************************************************************)
C28_DispatchAndCallBestEffort ==
    [][\A k \in Reqs :
          /\ (rtc[k].pc \in {"dispatchVoiceAgent", "createCall"}
              /\ rtc'[k] # rtc[k])
             => /\ rtc'[k].pc \notin {"responded", "idle"}
                /\ rtc'[k].roomName = rtc[k].roomName
          /\ (C22_Issued(k) /\ ~C26_NoDevice(rtc[k]))
             => /\ rtc'[k].roomName \in Rooms
                /\ IF \E c \in CallIds : db.calls[c].room = rtc[k].roomName
                   THEN /\ rtc'[k].callId # NoCallId
                        /\ db.calls[rtc'[k].callId].room = rtc[k].roomName
                   ELSE rtc'[k].callId = NoCallId]_vars

\* a device-initiated request whose agent was dispatched and whose Call
\* creation failed has its token, without callId
C28_Witness ==
    \E k \in Reqs :
       /\ rtc[k].pc = "responded"
       /\ rtc[k].status = "201 token"
       /\ ~C26_NoDevice(rtc[k])
       /\ rtc[k].agent = "dispatched"
       /\ rtc[k].callId = NoCallId
       /\ failBudget < MaxFail
       /\ \A c \in CallIds : db.calls[c].state = "none"

(***************************************************************************)
(* C29: a request does not wait for the agent dispatch or for the Call     *)
(* creation: while either is pending the request has been answered.        *)
(***************************************************************************)
C29_AnsweredWithoutWaiting ==
    \A k \in Reqs :
       (rtc[k].pc \in {"dispatchVoiceAgent", "createCall"})
       => rtc[k].status # NoResponse

\* the request carries no credential that a verifier accepts
C30_NoCredential(req) == req.bearer \in {"", "garbage"}

\* the roomName, the identity or the role of the request is missing or
\* invalid
C30_Defective(req) ==
    \/ req.body.roomName \in {" ", Absent, NotAString}
    \/ C23_Supplied(req) = NoIdent
    \/ req.body.role \notin {"host", "viewer", "observer"}

(***************************************************************************)
(* C30: the controller answers 401 to every request without a valid        *)
(* credential when authentication is required, and 400 to every other      *)
(* request whose roomName, identity or role is missing or invalid.         *)
(***************************************************************************)
C30_RejectsDefectiveRequests ==
    [][\A k \in Reqs :
          (rtc[k].pc \in {"idle", "responded"} /\ rtc'[k] # rtc[k])
          => LET req == rtc'[k].req IN
             IF req.authRequired /\ C30_NoCredential(req)
             THEN rtc'[k].status = "401 Unauthorized"
             ELSE C30_Defective(req)
                  => rtc'[k].status \in {"400 roomName is required",
                                         "400 identity is required",
                                         "400 invalid role"}]_vars

(***************************************************************************)
(* C31: the grants of an issued token are those of its role: 'observer'    *)
(* may subscribe and may neither publish nor publish data; 'host' has      *)
(* roomAdmin and is hidden; any other role may publish, subscribe and      *)
(* publish data and is neither roomAdmin nor hidden.  Two tokens of the    *)
(* same role have the same grants.                                         *)
(***************************************************************************)
C31_GrantsByRole ==
    \A k \in Reqs :
       (rtc[k].pc = "responded" /\ rtc[k].status = "201 token")
       => LET g == rtc[k].grant
              role == rtc[k].role
          IN  /\ role = "observer"
                 => /\ "canSubscribe" \in g
                    /\ {"canPublish", "canPublishData"} \cap g = {}
              /\ role = "host" => {"roomAdmin", "hidden"} \subseteq g
              /\ role \notin {"observer", "host"}
                 => /\ {"canPublish", "canSubscribe", "canPublishData"}
                          \subseteq g
                    /\ {"roomAdmin", "hidden"} \cap g = {}
              /\ \A j \in Reqs :
                    (/\ rtc[j].pc = "responded"
                     /\ rtc[j].status = "201 token"
                     /\ rtc[j].role = role)
                    => rtc[j].grant = g

\* an observer has a token: it may subscribe and not publish
C31_Witness ==
    \E k \in Reqs :
       /\ rtc[k].pc = "responded"
       /\ rtc[k].status = "201 token"
       /\ rtc[k].role = "observer"
       /\ rtc[k].grant = {"roomJoin", "canSubscribe"}

\* pass p issues the call named pc in this step
C32_Issues(p, pc) == pass[p].pc # pc /\ pass'[p].pc = pc

(***************************************************************************)
(* C32: within the reaping of one room the re-check listParticipants is    *)
(* issued when the removeParticipant call for every listed participant has *)
(* ended, in success or in failure, and the deleteRoom that follows the    *)
(* removals is issued by the step in which that re-check returns.          *)
(***************************************************************************)
C32_RemoveBeforeRecheckBeforeDelete ==
    [][\A p \in Passes :
          /\ C32_Issues(p, "relist")
             => /\ pass[p].pc = "remove"
                /\ pass'[p].i = pass[p].i
                /\ pass'[p].todo = {}
                /\ pass'[p].called = pass'[p].participants
          /\ C32_Issues(p, "deleteRoom")
             => /\ pass[p].pc = "relist"
                /\ pass'[p].i = pass[p].i
                /\ pass'[p].called = pass'[p].participants
                /\ pass'[p].updatedParticipants
                      = RouterParticipants(Room(pass[p]))]_vars

\* a pass is about to delete a room of two participants: one removal failed,
\* the other succeeded, and the re-check has returned
C32_Witness ==
    \E p \in Passes :
       /\ pass[p].pc = "deleteRoom"
       /\ Cardinality(pass[p].called) = 2
       /\ pass[p].removedCount = 1
       /\ pass[p].failed # {}

(***************************************************************************)
(* C33: a reap pass issues removeParticipant only for a room whose listing *)
(* shows no real user, and only for a participant that is not a real user; *)
(* it issues deleteRoom only for a room whose listing, and whose re-check  *)
(* if there was one, shows no real user.                                   *)
(***************************************************************************)
C33_NoCallOnRoomWithRealUser ==
    [][\A p \in Passes :
          LET shown(listing) == \E q \in listing : isRealUser(q) IN
          /\ (pass[p].pc = "remove" /\ pass'[p] # pass[p])
             => /\ ~shown(pass[p].participants)
                /\ \A id \in pass[p].todo \cup pass[p].called : ~isRealUser(id)
          /\ (pass[p].pc \in {"deleteEmpty", "deleteRoom"}
              /\ pass'[p] # pass[p])
             => /\ ~shown(pass[p].participants)
                /\ ~shown(pass[p].updatedParticipants)
          /\ (pass[p].pc = "listParticipants" /\ pass'[p] # pass[p]
              /\ shown(RouterParticipants(Room(pass[p]))))
             => pass'[p].pc \notin {"remove", "deleteEmpty", "deleteRoom",
                                    "relist"}]_vars

\* a pass has listed its first room, found the real user kakao_1 in it and
\* gone on to its second room without a call on the first
C33_Witness ==
    \E p \in Passes :
       /\ pass[p].pc = "listParticipants"
       /\ pass[p].i = 2
       /\ ~pass[p].acted
       /\ pass[p].failed = {}
       /\ pass[p].rooms[1] \in live
       /\ kakao_1 \in members[pass[p].rooms[1]]

\* a takeover-start toggle and a takeover-end toggle on the same room, which
\* were under way at the same time, have both returned and no call of
\* either has failed
C34_BothCompleted ==
    /\ \A k \in Toggles : /\ toggle[k].pc = "returned"
                          /\ toggle[k].failed = {}
                          /\ toggle[k].raced
    /\ toggle[1].room = toggle[2].room
    /\ toggle[1].mute # toggle[2].mute

(***************************************************************************)
(* C34: when a takeover-start toggle and a takeover-end toggle on the same *)
(* room run concurrently, then once both have completed without a failure  *)
(* the subscriptions of the room and the takeover flag of its metadata     *)
(* designate the same takeover value.                                      *)
(***************************************************************************)
C34_ChannelsAgreeAfterRace ==
    C34_BothCompleted
    => \E v \in BOOLEAN :
          /\ Routed(toggle[1].room, v)
          /\ TakeoverFlag(metadata[toggle[1].room]) = v

\* the awaited calls of issueToken that only read the database
C35_Lookups == {"findUserByDeviceToken", "findUserByIdentity"}

\* request k takes a step and is, after it, an unauthenticated request
\* whose identity no user record bears
C35_UnknownAfterStep(k) ==
    /\ rtc'[k] # rtc[k]
    /\ ~rtc'[k].isAuthenticated
    /\ rtc'[k].identity \notin db.users

(***************************************************************************)
(* C35: an issueToken call that is rejected because the unauthenticated    *)
(* identity is unknown leaves all state as it was: from its start to its   *)
(* rejection it only reads, so no user, room member, call or device record *)
(* is written, no room-created event is emitted and no agent dispatched.   *)
(***************************************************************************)
C35_RejectionWritesNothing ==
    [][\A k \in Reqs :
          C35_UnknownAfterStep(k)
          => /\ rtc'[k].pc \in C35_Lookups \cup {"responded"}
             /\ rtc'[k].pc = "responded" => rtc'[k].status # "201 token"
             /\ db' = db
             /\ emitted' = emitted
             /\ hist' = hist
             /\ rtc'[k].agent = "none"
             /\ rtc'[k].callId = NoCallId]_vars

\* an unauthenticated request with a voip token that no device record holds
\* has been rejected for its unknown identity, no call having failed
C35_Witness ==
    \E k \in Reqs :
       /\ rtc[k].pc = "responded"
       /\ rtc[k].status = "500 Internal server error"
       /\ ~rtc[k].isAuthenticated
       /\ rtc[k].identity # NoIdent
       /\ rtc[k].identity \notin db.users
       /\ rtc[k].req.body.voipToken # ""
       /\ failBudget = MaxFail

\* the identity that the bearer of an answered request authenticated
C36_Credential(req) ==
    IF req.bearer = "kakao" THEN kakao_1 ELSE admin_1

(***************************************************************************)
(* C36: when the bearer authenticates a user or an admin, body.identity    *)
(* has no influence on the identity of the token: that identity is the     *)
(* owner of the device the request names if there is one and the           *)
(* authenticated identity otherwise, so two requests that differ only in   *)
(* body.identity obtain tokens with the same identity.                     *)
(***************************************************************************)
C36_BodyIdentityIgnored ==
    [][\A k \in Reqs :
          (C22_Issued(k) /\ rtc[k].isAuthenticated)
          => LET body == rtc[k].req.body
                 owners == {db.deviceOwner[c] : c \in
                              {c \in {"voip", "apns"} :
                                 body[c \o "Token"] # ""}} \ {NoIdent}
             IN  /\ rtc[k].req.bearer \in {"kakao", "admin", "api"}
                 /\ rtc'[k].identity \in
                       IF owners # {} THEN owners
                       ELSE {C36_Credential(rtc[k].req)}]_vars

\* a request from no device, authenticated as kakao_1, whose body names
\* admin_1 has been answered with a token of kakao_1
C36_Witness ==
    \E k \in Reqs :
       /\ rtc[k].pc = "responded"
       /\ rtc[k].status = "201 token"
       /\ rtc[k].req.bearer = "kakao"
       /\ rtc[k].req.body.identity = admin_1
       /\ rtc[k].req.body.voipToken = ""
       /\ rtc[k].req.body.apnsToken = ""
       /\ rtc[k].identity = kakao_1

\* the refreshTokens calls that presented refreshToken and returned tokens
C37_Succeeded(refreshToken) ==
    {k \in Reqs : /\ auth.call[k].pc = "responded"
                  /\ auth.call[k].kind = "refresh"
                  /\ auth.call[k].presented = refreshToken
                  /\ auth.call[k].status = "200 tokens"}

(***************************************************************************)
(* C37: a refresh token is usable at most once: of the refreshTokens calls *)
(* that present the same refresh token, in any interleaving, at most one   *)
(* succeeds and returns new tokens.                                        *)
(***************************************************************************)
C37_RefreshTokenUsedOnce == Cardinality(C37_Succeeded(<<1, 0>>)) <= 1

\* kakaoLogin call k returns tokens in this step
C38_ReturnsTokens(k) ==
    /\ auth.call[k].pc # "responded"
    /\ auth'.call[k].pc = "responded"
    /\ auth'.call[k].kind = "login"
    /\ auth'.call[k].status = "200 tokens"

(***************************************************************************)
(* C38: whenever kakaoLogin returns tokens, the user id in them names a    *)
(* user row that is in the database at return time, also when an           *)
(* incomplete ward user was deleted during the same login.                 *)
(***************************************************************************)
C38_TokensNameExistingUser ==
    [][\A k \in Reqs :
          C38_ReturnsTokens(k)
          => auth'.call[k].userId \in UserIds(auth')]_vars

=============================================================================
